---------------------------- MODULE Spec2Model ----------------------------
(***************************************************************************)
(* Command-resolution subsystem of the voice todo agent:                   *)
(*   - the resilient call executor (withRetry / withTimeout /              *)
(*     calculateDelay / formatErrorForTTS),                                *)
(*   - the task identifier resolver (resolveTaskIdentifier),               *)
(*   - the four command tools (create_task, get_tasks, update_task,        *)
(*     delete_task) running against the remote task API.                   *)
(*                                                                         *)
(* Strings are TLA+ strings; the JavaScript string operations the code     *)
(* uses (toLowerCase, includes, regular expressions, parseInt, template    *)
(* literals) are defined below character by character.                     *)
(***************************************************************************)
EXTENDS Integers, Sequences, FiniteSets, TLC

VARIABLES
    \* ---- withRetry (one execution of the executor) ----
    opts,        \* the merged options record of the running withRetry
    attempt,     \* withRetry's attempt counter
    lastError,   \* withRetry's lastError: <<>> while undefined, else <<message>>
    rpc,         \* position in withRetry: idle | awaiting | sleeping | returned | thrown
    calls,       \* number of invocations of fn by the running withRetry
    sleeps,      \* the delays slept by the running withRetry, in order
    settled,     \* what withRetry returned or threw: <<>> while running
    history,     \* observer: what fn did in each attempt of a withRetry run on its own
    \* ---- the remote task API and the frontend ----
    tasks,       \* the remote task collection, in the order a listing returns it
    room,        \* TaskFunctionContext.room: "absent" or "present"
    published,   \* the data messages published to the frontend, in order
    \* ---- one tool invocation ----
    call,        \* the tool invoked and its arguments: <<>> before the invocation
    tpc,         \* position in the tool: idle | resolving | mutating | listing | done
    request,     \* the HTTP request fetchWithErrorHandling is performing: <<>> if none
    requests,    \* every HTTP request attempt sent by the invocation, in order
    resolution,  \* <<>>, or <<[snapshot, outcome]>> once the resolver has run
    result,      \* <<>>, or <<r>>: how the tool's execute ended
    invocations, \* observer: per update_task/delete_task invocation so far, <<>> or
                 \* <<list>>, the list the remote returned to its listing fetch
    \* ---- the agent process: greeting and shutdown ----
    greetings,            \* the playGreeting calls so far, in order: [room, metadata, pc]
    greetingPlayedRooms,  \* the module-level Set of greeting.ts
    isShuttingDown,       \* the module-level flag of the signal handlers
    cleanup,              \* the cleanupOnExit calls so far, in order: [pc, left]
    signals,              \* the signals delivered to the process so far, in order
    exited                \* process.exit has been called

retryVars == <<opts, attempt, lastError, rpc, calls, sleeps, settled>>

remoteVars == <<tasks, room, published>>

toolVars == <<call, tpc, request, requests, resolution, result>>

agentVars == <<greetings, greetingPlayedRooms, isShuttingDown, cleanup, signals, exited>>

vars == <<retryVars, history, remoteVars, toolVars, invocations, agentVars>>

(***************************************************************************)
(* JavaScript string operations                                            *)
(***************************************************************************)

Digits == <<"0", "1", "2", "3", "4", "5", "6", "7", "8", "9">>

\* the value of each digit character
DigitValues == [d \in {Digits[i] : i \in 1..10} |-> (CHOOSE i \in 1..10 : Digits[i] = d) - 1]

IsDigit(c) == c \in DOMAIN DigitValues

DigitValue(c) == DigitValues[c]

UpperCase == <<"A", "B", "C", "D", "E", "F", "G", "H", "I", "J", "K", "L", "M",
               "N", "O", "P", "Q", "R", "S", "T", "U", "V", "W", "X", "Y", "Z">>

LowerCase == <<"a", "b", "c", "d", "e", "f", "g", "h", "i", "j", "k", "l", "m",
               "n", "o", "p", "q", "r", "s", "t", "u", "v", "w", "x", "y", "z">>

\* the lower-case letter of each upper-case letter
LowerOf ==
    [u \in {UpperCase[i] : i \in 1..26} |-> LowerCase[CHOOSE i \in 1..26 : UpperCase[i] = u]]

\* one character of String.prototype.toLowerCase
LowerChar(c) == IF c \in DOMAIN LowerOf THEN LowerOf[c] ELSE c

RECURSIVE toLowerCase(_)
toLowerCase(s) ==
    IF Len(s) = 0 THEN "" ELSE LowerChar(Head(s)) \o toLowerCase(Tail(s))

\* String.prototype.includes: t occurs in s at some offset i
includes(s, t) ==
    \E str \in {s}, sub \in {t} :
        \E i \in 0..(Len(str) - Len(sub)) : SubSeq(str, i + 1, i + Len(sub)) = sub

\* Number -> decimal string, as a template literal prints a non-negative integer
RECURSIVE NumToString(_)
NumToString(n) ==
    IF n < 10 THEN Digits[n + 1]
    ELSE NumToString(n \div 10) \o Digits[(n % 10) + 1]

(***************************************************************************)
(* Resilient call executor                                                 *)
(***************************************************************************)

\* DEFAULT_RETRY_OPTIONS; shouldRetry names the predicate in use
DEFAULT_RETRY_OPTIONS ==
    [maxRetries |-> 2, initialDelayMs |-> 500, maxDelayMs |-> 5000,
     timeoutMs |-> 10000, backoffMultiplier |-> 2, shouldRetry |-> "default"]

\* { ...DEFAULT_RETRY_OPTIONS, ...options }
MergeOptions(defaults, options) ==
    [k \in DOMAIN defaults |->
        IF k \in DOMAIN options THEN options[k] ELSE defaults[k]]

\* DEFAULT_RETRY_OPTIONS.shouldRetry
\* a faulty predicate: any failure that carries a status is retried
DefaultShouldRetry_AnyStatus(message) ==
    LET m == toLowerCase(message) IN
        \/ includes(m, "network")
        \/ includes(m, "timeout")
        \/ includes(m, "fetch")
        \/ includes(m, "econnrefused")
        \/ includes(m, "status ")

DefaultShouldRetry(message) ==
    LET m == toLowerCase(message) IN
        \/ includes(m, "network")
        \/ includes(m, "timeout")
        \/ includes(m, "fetch")
        \/ includes(m, "econnrefused")
        \/ includes(m, "status 5")

\* opts.shouldRetry(lastError): the default predicate, or a caller's own
\* (error) => true
shouldRetry(o, message) ==
    IF o.shouldRetry = "default" THEN DefaultShouldRetry(message) ELSE TRUE

RECURSIVE Pow(_, _)
Pow(b, e) == IF e = 0 THEN 1 ELSE b * Pow(b, e - 1)

Min(a, b) == IF a <= b THEN a ELSE b

\* a faulty calculateDelay: the delay is not capped at maxDelay
calculateDelay_Uncapped(att, initialDelay, maxDelay, multiplier) ==
    initialDelay * Pow(multiplier, att)

calculateDelay(att, initialDelay, maxDelay, multiplier) ==
    LET delay == initialDelay * Pow(multiplier, att) IN Min(delay, maxDelay)

\* The error withTimeout's timer rejects with
TimeoutMessage(timeoutMs) ==
    "Operation timed out after " \o NumToString(timeoutMs) \o "ms"

\* withTimeout: the race of fn's promise against the timer.  An outcome of fn
\* is [kind |-> "resolve", value |-> v], [kind |-> "reject", message |-> m]
\* or [kind |-> "pending"] (not settled when the timer fires).
withTimeout(outcome, timeoutMs) ==
    IF outcome.kind = "pending"
    THEN [kind |-> "reject", message |-> TimeoutMessage(timeoutMs)]
    ELSE outcome

\* withRetry, lines 297-308: merge the options, enter the loop, invoke fn
withRetryEnter(options) ==
    /\ opts' = MergeOptions(DEFAULT_RETRY_OPTIONS, options)
    /\ attempt' = 0
    /\ lastError' = <<>>
    /\ sleeps' = <<>>
    /\ IF 0 <= opts'.maxRetries
       THEN /\ calls' = 1
            /\ rpc' = "awaiting"
            /\ settled' = <<>>
       ELSE /\ calls' = 0
            /\ rpc' = "thrown"
            /\ settled' = <<[kind |-> "reject", message |-> "undefined"]>>

\* a faulty test: the last retry is never made
Breaks_OneEarly(att, o, message) ==
    att + 1 >= o.maxRetries \/ ~shouldRetry(o, message)

\* a faulty test: the retry predicate is not consulted
Breaks_IgnoringPredicate(att, o, message) == att >= o.maxRetries

\* a faulty test: the loop sleeps once more after the final attempt
Breaks_OneLate(att, o, message) ==
    att > o.maxRetries \/ ~shouldRetry(o, message)

\* withRetry, lines 321-330: the two tests that break out of the loop after
\* a failed attempt
Breaks(att, o, message) ==
    att >= o.maxRetries \/ ~shouldRetry(o, message)

\* withRetry, lines 308-341: the awaited race settles; return, or catch and
\* either break and throw lastError or start the back-off sleep
withRetrySettle(outcome) ==
    \E res \in {withTimeout(outcome, opts.timeoutMs)} :
    /\ rpc = "awaiting"
    /\ UNCHANGED <<opts, attempt, calls>>
    /\ IF res.kind = "resolve"
       THEN /\ rpc' = "returned"
            /\ settled' = <<res>>
            /\ UNCHANGED <<lastError, sleeps>>
       ELSE /\ lastError' = <<res.message>>
            /\ IF Breaks(attempt, opts, res.message)
               THEN /\ rpc' = "thrown"
                    /\ settled' = <<[kind |-> "reject", message |-> res.message]>>
                    /\ UNCHANGED sleeps
               ELSE /\ rpc' = "sleeping"
                    /\ sleeps' = Append(sleeps,
                           calculateDelay(attempt, opts.initialDelayMs,
                                          opts.maxDelayMs, opts.backoffMultiplier))
                    /\ UNCHANGED settled

\* withRetry, lines 341-343 and 301-308: the sleep ends, attempt++, the loop
\* condition holds again and fn is invoked anew
withRetryWake ==
    /\ rpc = "sleeping"
    /\ attempt' = attempt + 1
    /\ UNCHANGED <<opts, lastError, sleeps>>
    /\ IF attempt' <= opts.maxRetries
       THEN /\ calls' = calls + 1
            /\ rpc' = "awaiting"
            /\ UNCHANGED settled
       ELSE /\ rpc' = "thrown"
            /\ settled' = <<[kind |-> "reject", message |-> lastError[1]]>>
            /\ UNCHANGED calls

\* formatErrorForTTS
formatErrorForTTS(message, operation) ==
    LET m == toLowerCase(message) IN
    IF includes(m, "network") \/ includes(m, "fetch") \/ includes(m, "econnrefused")
    THEN "I couldn't " \o operation
         \o " due to a network error. Please check your connection and try again."
    ELSE IF includes(m, "timeout")
    THEN "The request to " \o operation \o " timed out. Please try again."
    ELSE IF includes(m, "status 5")
    THEN "The server encountered an error while trying to " \o operation
         \o ". Please try again in a moment."
    ELSE IF includes(m, "status 4")
    THEN IF includes(m, "404") \/ includes(m, "not found")
         THEN "I couldn't find that task. Please try a different description."
         ELSE IF includes(m, "400") \/ includes(m, "invalid")
         THEN "The request to " \o operation
              \o " was invalid. Please try rephrasing your command."
         ELSE "There was a problem with the request to " \o operation
              \o ". Please try again."
    ELSE "I couldn't " \o operation \o ". Please try again."

(***************************************************************************)
(* Task identifier resolver                                                *)
(***************************************************************************)

\* /^\d+$/
IsPlainNumber(s) == Len(s) >= 1 /\ \A i \in 1..Len(s) : IsDigit(SubSeq(s, i, i))

\* parseInt(s, 10) of a string of digits
RECURSIVE parseInt(_)
parseInt(s) ==
    IF Len(s) = 0 THEN 0
    ELSE 10 * parseInt(SubSeq(s, 1, Len(s) - 1)) + DigitValue(SubSeq(s, Len(s), Len(s)))

OrdinalSuffixes == {"st", "nd", "rd", "th"}

\* the places <<i, j>> at which /(\d+)(st|nd|rd|th)/i can match: s[i..j] are
\* digits and s[j+1..j+2] is a suffix
OrdinalPlaces(s) ==
    { p \in (1..Len(s)) \X (1..Len(s)) :
        /\ p[1] <= p[2]
        /\ p[2] + 2 <= Len(s)
        /\ \A k \in p[1]..p[2] : IsDigit(SubSeq(s, k, k))
        /\ toLowerCase(SubSeq(s, p[2] + 1, p[2] + 2)) \in OrdinalSuffixes }

\* identifier.match(/(\d+)(st|nd|rd|th)/i): <<>> for null, else <<group 1>>;
\* the leftmost match, its digits taken greedily
OrdinalMatch(s) ==
    IF OrdinalPlaces(s) = {} THEN <<>>
    ELSE LET p == CHOOSE q \in OrdinalPlaces(s) :
                      \A r \in OrdinalPlaces(s) : q[1] <= r[1]
         IN <<SubSeq(s, p[1], p[2])>>

Plural(n) == IF n = 1 THEN "" ELSE "s"

\* a faulty range test: the position after the last one passes it
ResolvePosition_OffByOne(index, fetched) ==
    IF index < 0 \/ index > Len(fetched)
    THEN [ok |-> FALSE, listed |-> <<>>,
          message |-> "Task number " \o NumToString(index + 1)
                      \o " doesn't exist. You have " \o NumToString(Len(fetched))
                      \o " task" \o Plural(Len(fetched)) \o "."]
    ELSE IF index + 1 \notin DOMAIN fetched
    THEN [ok |-> FALSE, listed |-> <<>>,
          message |-> "Task number " \o NumToString(index + 1) \o " doesn't exist."]
    ELSE [ok |-> TRUE, id |-> fetched[index + 1].id]

\* lines 123-132 and 144-153: the positional branch, given the 0-based index
\* (the middle case is the `if (!task)` of lines 128 and 149)
ResolvePosition(index, fetched) ==
    IF index < 0 \/ index >= Len(fetched)
    THEN [ok |-> FALSE, listed |-> <<>>,
          message |-> "Task number " \o NumToString(index + 1)
                      \o " doesn't exist. You have " \o NumToString(Len(fetched))
                      \o " task" \o Plural(Len(fetched)) \o "."]
    ELSE IF index + 1 \notin DOMAIN fetched
    THEN [ok |-> FALSE, listed |-> <<>>,
          message |-> "Task number " \o NumToString(index + 1) \o " doesn't exist."]
    ELSE [ok |-> TRUE, id |-> fetched[index + 1].id]

\* a faulty filter: the titles are compared as they are written
MatchPositions_CaseSensitive(identifier, fetched) ==
    { i \in 1..Len(fetched) : includes(fetched[i].title, toLowerCase(identifier)) }

\* tasks.filter(task => task.title.toLowerCase().includes(lowerIdentifier)),
\* as the positions (in the fetched list) of the tasks kept
MatchPositions(identifier, fetched) ==
    { i \in 1..Len(fetched) :
        includes(toLowerCase(fetched[i].title), toLowerCase(identifier)) }

RECURSIVE SortedSeq(_)
SortedSeq(S) ==
    IF S = {} THEN <<>>
    ELSE LET m == CHOOSE x \in S : \A y \in S : x <= y
         IN <<m>> \o SortedSeq(S \ {m})

\* the array `matches`
Matches(identifier, fetched) ==
    LET pos == SortedSeq(MatchPositions(identifier, fetched))
    IN [k \in 1..Len(pos) |-> fetched[pos[k]]]

\* matches.map((task, idx) => `${idx + 1}. ${task.title}`), kept as the number
\* and the title of each entry
MatchList(matches) ==
    [k \in 1..Len(matches) |-> [number |-> k, title |-> matches[k].title]]

\* .join(', ') of the entries rendered as `${number}. ${title}`
RECURSIVE JoinEntries(_)
JoinEntries(entries) ==
    IF Len(entries) = 0 THEN ""
    ELSE LET e == entries[1]
             one == NumToString(e.number) \o ". " \o e.title
         IN IF Len(entries) = 1 THEN one
            ELSE one \o ", " \o JoinEntries(Tail(entries))

\* lines 156-187: the title branch
ResolveTitle(identifier, fetched) ==
    LET matches == Matches(identifier, fetched) IN
    IF Len(matches) = 0
    THEN [ok |-> FALSE, listed |-> <<>>,
          message |-> "No task found matching \"" \o identifier
                      \o "\". Please try a different description."]
    ELSE IF Len(matches) > 1
    THEN [ok |-> FALSE, listed |-> MatchList(matches),
          message |-> "Multiple tasks match \"" \o identifier \o "\": "
                      \o JoinEntries(MatchList(matches))
                      \o ". Please be more specific or use a task number."]
    ELSE [ok |-> TRUE, id |-> matches[1].id]

\* a faulty resolver: the ordinal is taken as a 0-based index
resolveTaskIdentifier_OrdinalZeroBased(identifier, fetched) ==
    IF IsPlainNumber(identifier)
    THEN ResolvePosition(parseInt(identifier) - 1, fetched)
    ELSE IF OrdinalMatch(identifier) # <<>>
    THEN ResolvePosition(parseInt(OrdinalMatch(identifier)[1]), fetched)
    ELSE ResolveTitle(identifier, fetched)

\* a faulty resolver: title matching is tried before the positional rules
resolveTaskIdentifier_TitleFirst(identifier, fetched) ==
    IF Len(Matches(identifier, fetched)) > 0
    THEN ResolveTitle(identifier, fetched)
    ELSE IF IsPlainNumber(identifier)
    THEN ResolvePosition(parseInt(identifier) - 1, fetched)
    ELSE IF OrdinalMatch(identifier) # <<>>
    THEN ResolvePosition(parseInt(OrdinalMatch(identifier)[1]) - 1, fetched)
    ELSE ResolveTitle(identifier, fetched)

\* a faulty resolver: the title of the task selected is returned for its id
resolveTaskIdentifier_ReturnsTitle(identifier, fetched) ==
    LET res == IF IsPlainNumber(identifier)
               THEN ResolvePosition(parseInt(identifier) - 1, fetched)
               ELSE IF OrdinalMatch(identifier) # <<>>
               THEN ResolvePosition(parseInt(OrdinalMatch(identifier)[1]) - 1, fetched)
               ELSE ResolveTitle(identifier, fetched)
    IN IF res.ok
       THEN [ok |-> TRUE,
             id |-> fetched[CHOOSE k \in 1..Len(fetched) : fetched[k].id = res.id].title]
       ELSE res

\* resolveTaskIdentifier, given the list its getAllTasks() returned
resolveTaskIdentifier(identifier, fetched) ==
    IF IsPlainNumber(identifier)
    THEN ResolvePosition(parseInt(identifier) - 1, fetched)
    ELSE IF OrdinalMatch(identifier) # <<>>
    THEN ResolvePosition(parseInt(OrdinalMatch(identifier)[1]) - 1, fetched)
    ELSE ResolveTitle(identifier, fetched)

(***************************************************************************)
(* Date expression parser                                                  *)
(*                                                                         *)
(* A Date is [day |-> days since 1970-01-01 (UTC), ms |-> milliseconds     *)
(* into that UTC day]; an invalid Date is InvalidDate.                     *)
(***************************************************************************)

MsPerSecond == 1000
MsPerMinute == 60000
MsPerHour == 3600000
MsPerDay == 86400000

InvalidDate == [day |-> -1, ms |-> -1]

\* date < referenceDate
DateBefore(a, b) == a.day < b.day \/ (a.day = b.day /\ a.ms < b.ms)

IsLeapYear(y) == (y % 4 = 0 /\ y % 100 # 0) \/ y % 400 = 0

DaysInMonth(y, m) ==
    IF m = 2 THEN (IF IsLeapYear(y) THEN 29 ELSE 28)
    ELSE IF m \in {4, 6, 9, 11} THEN 30 ELSE 31

DaysInYear(y) == IF IsLeapYear(y) THEN 366 ELSE 365

\* days from 1970-01-01 to January 1st of year y (y >= 1970)
DaysBeforeYear(y) ==
    365 * (y - 1970) + ((y - 1969) \div 4) - ((y - 1901) \div 100)
        + ((y - 1601) \div 400)

RECURSIVE DaysBeforeMonth(_, _)
DaysBeforeMonth(y, m) ==
    IF m = 1 THEN 0 ELSE DaysBeforeMonth(y, m - 1) + DaysInMonth(y, m - 1)

\* ECMAScript MakeDay(year, month, date): month is 1-based here and may
\* exceed 12, date may exceed the month's length; both carry over
MakeDay(y, m, d) ==
    LET yy == y + ((m - 1) \div 12)
        mm == ((m - 1) % 12) + 1
    IN DaysBeforeYear(yy) + DaysBeforeMonth(yy, mm) + d - 1

YearOfDay(day) ==
    CHOOSE y \in (1970 + (day \div 366))..(1970 + (day \div 365)) :
        DaysBeforeYear(y) <= day /\ day < DaysBeforeYear(y + 1)

MonthOfDay(day) ==
    LET y == YearOfDay(day)
        n == day - DaysBeforeYear(y)
    IN CHOOSE m \in 1..12 :
           DaysBeforeMonth(y, m) <= n /\ n < DaysBeforeMonth(y, m) + DaysInMonth(y, m)

\* getUTCDate()
DateOfDay(day) ==
    day - DaysBeforeYear(YearOfDay(day))
        - DaysBeforeMonth(YearOfDay(day), MonthOfDay(day)) + 1

\* getUTCDay(): 0 = Sunday; 1970-01-01 was a Thursday
getUTCDay(date) == (date.day + 4) % 7

\* setUTCHours(h, 0, 0, 0)
setUTCHours(date, h) == [date EXCEPT !.ms = h * MsPerHour]

\* setUTCDate(getUTCDate() + n)
addUTCDate(date, n) == [date EXCEPT !.day = date.day + n]

\* a faulty setUTCMonth: a day the target month does not have becomes the
\* month's last day
addUTCMonth_Clamped(date, n) ==
    LET y == YearOfDay(date.day) + ((MonthOfDay(date.day) - 1 + n) \div 12)
        m == ((MonthOfDay(date.day) - 1 + n) % 12) + 1
        d == IF DateOfDay(date.day) > DaysInMonth(y, m) THEN DaysInMonth(y, m)
             ELSE DateOfDay(date.day)
    IN [date EXCEPT !.day = MakeDay(y, m, d)]

\* setUTCMonth(getUTCMonth() + n)
addUTCMonth(date, n) ==
    [date EXCEPT !.day = MakeDay(YearOfDay(date.day), MonthOfDay(date.day) + n,
                                 DateOfDay(date.day))]

\* n printed in exactly w digits
RECURSIVE Pad(_, _)
Pad(n, w) == IF w = 0 THEN "" ELSE Pad(n \div 10, w - 1) \o Digits[(n % 10) + 1]

\* Date.prototype.toISOString
toISOString(date) ==
    Pad(YearOfDay(date.day), 4) \o "-" \o Pad(MonthOfDay(date.day), 2) \o "-"
    \o Pad(DateOfDay(date.day), 2) \o "T"
    \o Pad(date.ms \div MsPerHour, 2) \o ":"
    \o Pad((date.ms % MsPerHour) \div MsPerMinute, 2) \o ":"
    \o Pad((date.ms % MsPerMinute) \div MsPerSecond, 2) \o "."
    \o Pad(date.ms % MsPerSecond, 3) \o "Z"

AllDigits(s) == \A i \in 1..Len(s) : IsDigit(SubSeq(s, i, i))

\* /^\d{2}:\d{2}:\d{2}(\.\d{3})?Z?$/ on what follows the "T"
IsISOTimePart(t) ==
    LET core == /\ Len(t) >= 8
                /\ AllDigits(SubSeq(t, 1, 2)) /\ SubSeq(t, 3, 3) = ":"
                /\ AllDigits(SubSeq(t, 4, 5)) /\ SubSeq(t, 6, 6) = ":"
                /\ AllDigits(SubSeq(t, 7, 8))
        rest == SubSeq(t, 9, Len(t))
        frac == Len(rest) >= 4 /\ SubSeq(rest, 1, 1) = "."
                /\ AllDigits(SubSeq(rest, 2, 4))
        tail == IF frac THEN SubSeq(rest, 5, Len(rest)) ELSE rest
    IN core /\ tail \in {"", "Z"}

\* isISO8601: /^\d{4}-\d{2}-\d{2}(T\d{2}:\d{2}:\d{2}(\.\d{3})?Z?)?$/
isISO8601(str) ==
    /\ Len(str) >= 10
    /\ AllDigits(SubSeq(str, 1, 4)) /\ SubSeq(str, 5, 5) = "-"
    /\ AllDigits(SubSeq(str, 6, 7)) /\ SubSeq(str, 8, 8) = "-"
    /\ AllDigits(SubSeq(str, 9, 10))
    /\ \/ Len(str) = 10
       \/ /\ SubSeq(str, 11, 11) = "T"
          /\ IsISOTimePart(SubSeq(str, 12, Len(str)))

\* a faulty pass-through: a date without a time is put at noon UTC
NewDateFromISO_DateAtNoon(str, tzOffsetMinutes) ==
    LET y == parseInt(SubSeq(str, 1, 4))
        m == parseInt(SubSeq(str, 6, 7))
        d == parseInt(SubSeq(str, 9, 10))
        hasTime == Len(str) > 10
        hh == IF hasTime THEN parseInt(SubSeq(str, 12, 13)) ELSE 12
        mi == IF hasTime THEN parseInt(SubSeq(str, 15, 16)) ELSE 0
        ss == IF hasTime THEN parseInt(SubSeq(str, 18, 19)) ELSE 0
        hasFrac == Len(str) >= 23
        fff == IF hasFrac THEN parseInt(SubSeq(str, 21, 23)) ELSE 0
        utc == ~hasTime \/ SubSeq(str, Len(str), Len(str)) = "Z"
        valid == /\ y >= 1970
                 /\ m \in 1..12 /\ d \in 1..31
                 /\ mi \in 0..59 /\ ss \in 0..59
                 /\ hh \in 0..23 \/ (hh = 24 /\ mi = 0 /\ ss = 0 /\ fff = 0)
        off == IF utc THEN 0 ELSE tzOffsetMinutes
        total == hh * MsPerHour + mi * MsPerMinute + ss * MsPerSecond + fff
                 - off * MsPerMinute
        dayShift == IF total < 0 THEN -1 ELSE total \div MsPerDay
    IN IF ~valid THEN InvalidDate
       ELSE [day |-> MakeDay(y, m, d) + dayShift,
             ms |-> total - dayShift * MsPerDay]

\* new Date(str) for a string isISO8601 accepts.  A date-only form is UTC, a
\* date-time ending in Z is UTC, a date-time without Z is local time:
\* tzOffsetMinutes is the host's offset (local = UTC + offset).  The engine
\* accepts month 1..12, day 1..31 (carried over by MakeDay), hour 0..24 (24
\* only as 24:00:00.000), minute and second 0..59.
NewDateFromISO(str, tzOffsetMinutes) ==
    LET y == parseInt(SubSeq(str, 1, 4))
        m == parseInt(SubSeq(str, 6, 7))
        d == parseInt(SubSeq(str, 9, 10))
        hasTime == Len(str) > 10
        hh == IF hasTime THEN parseInt(SubSeq(str, 12, 13)) ELSE 0
        mi == IF hasTime THEN parseInt(SubSeq(str, 15, 16)) ELSE 0
        ss == IF hasTime THEN parseInt(SubSeq(str, 18, 19)) ELSE 0
        hasFrac == Len(str) >= 23
        fff == IF hasFrac THEN parseInt(SubSeq(str, 21, 23)) ELSE 0
        utc == ~hasTime \/ SubSeq(str, Len(str), Len(str)) = "Z"
        valid == /\ y >= 1970
                 /\ m \in 1..12 /\ d \in 1..31
                 /\ mi \in 0..59 /\ ss \in 0..59
                 /\ hh \in 0..23 \/ (hh = 24 /\ mi = 0 /\ ss = 0 /\ fff = 0)
        off == IF utc THEN 0 ELSE tzOffsetMinutes
        total == hh * MsPerHour + mi * MsPerMinute + ss * MsPerSecond + fff
                 - off * MsPerMinute
        dayShift == IF total < 0 THEN -1 ELSE total \div MsPerDay
    IN IF ~valid THEN InvalidDate
       ELSE [day |-> MakeDay(y, m, d) + dayShift,
             ms |-> total - dayShift * MsPerDay]

IsSpace(c) == c \in {" ", "\t", "\n"}

\* String.prototype.trim
RECURSIVE trimStart(_)
trimStart(s) ==
    IF Len(s) > 0 /\ IsSpace(Head(s)) THEN trimStart(Tail(s)) ELSE s

RECURSIVE trimEnd(_)
trimEnd(s) ==
    IF Len(s) > 0 /\ IsSpace(SubSeq(s, Len(s), Len(s)))
    THEN trimEnd(SubSeq(s, 1, Len(s) - 1)) ELSE s

\* a faulty trim: only the leading white space is removed
trim_LeadingOnly(s) == trimStart(s)

trim(s) == trimEnd(trimStart(s))

\* the weekdays array of getNextWeekday (index 0 = sunday)
Weekdays == <<"sunday", "monday", "tuesday", "wednesday", "thursday",
              "friday", "saturday">>

isWeekdayName(str) == \E i \in 1..7 : Weekdays[i] = toLowerCase(str)

startsWith(s, t) == Len(s) >= Len(t) /\ SubSeq(s, 1, Len(t)) = t

endsWith(s, t) == Len(s) >= Len(t) /\ SubSeq(s, Len(s) - Len(t) + 1, Len(s)) = t

RelativeUnits == {"day", "days", "week", "weeks", "month", "months"}

\* /^in (\d+) (day|days|week|weeks|month|months)$/: <<>> for no match, else
\* <<digits, unit>>
RelativeMatch(s) ==
    LET fits == { u \in RelativeUnits :
                    /\ startsWith(s, "in ")
                    /\ endsWith(s, " " \o u)
                    /\ Len(s) - Len(u) - 1 >= 4
                    /\ AllDigits(SubSeq(s, 4, Len(s) - Len(u) - 1)) }
    IN IF fits = {} THEN <<>>
       ELSE LET u == CHOOSE v \in fits : TRUE
            IN <<SubSeq(s, 4, Len(s) - Len(u) - 1), u>>

\* a faulty parseRelativeDate: a week counts as one day
parseRelativeDate_WeeksAsDays(input, referenceDate) ==
    LET match == RelativeMatch(input)
        amount == parseInt(match[1])
        unit == match[2]
        targetDate == setUTCHours(referenceDate, 12)
    IN IF unit \in {"day", "days"} THEN addUTCDate(targetDate, amount)
       ELSE IF unit \in {"week", "weeks"} THEN addUTCDate(targetDate, amount)
       ELSE addUTCMonth(targetDate, amount)

\* parseRelativeDate
parseRelativeDate(input, referenceDate) ==
    LET match == RelativeMatch(input)
        amount == parseInt(match[1])
        unit == match[2]
        targetDate == setUTCHours(referenceDate, 12)
    IN IF unit \in {"day", "days"} THEN addUTCDate(targetDate, amount)
       ELSE IF unit \in {"week", "weeks"} THEN addUTCDate(targetDate, amount * 7)
       ELSE addUTCMonth(targetDate, amount)

\* a faulty getNextWeekday: the reference day itself counts as the next
\* occurrence
getNextWeekday_TodayCounts(weekday, referenceDate, forceNext) ==
    LET targetDayIndex == (CHOOSE i \in 1..7 : Weekdays[i] = toLowerCase(weekday)) - 1
        currentDayIndex == getUTCDay(referenceDate)
        targetDate == setUTCHours(referenceDate, 12)
        diff == targetDayIndex - currentDayIndex
        daysUntilTarget == IF diff < 0 \/ forceNext THEN diff + 7 ELSE diff
    IN addUTCDate(targetDate, daysUntilTarget)

\* a faulty getNextWeekday: forceNext adds a week to the next occurrence,
\* whichever week that occurrence is in
getNextWeekday_ForcedTwice(weekday, referenceDate, forceNext) ==
    LET targetDayIndex == (CHOOSE i \in 1..7 : Weekdays[i] = toLowerCase(weekday)) - 1
        currentDayIndex == getUTCDay(referenceDate)
        targetDate == setUTCHours(referenceDate, 12)
        diff == targetDayIndex - currentDayIndex
        nearest == IF diff <= 0 THEN diff + 7 ELSE diff
        daysUntilTarget == IF forceNext THEN nearest + 7 ELSE nearest
    IN addUTCDate(targetDate, daysUntilTarget)

\* getNextWeekday
getNextWeekday(weekday, referenceDate, forceNext) ==
    LET targetDayIndex == (CHOOSE i \in 1..7 : Weekdays[i] = toLowerCase(weekday)) - 1
        currentDayIndex == getUTCDay(referenceDate)
        targetDate == setUTCHours(referenceDate, 12)
        diff == targetDayIndex - currentDayIndex
        daysUntilTarget == IF diff <= 0 \/ forceNext THEN diff + 7 ELSE diff
    IN addUTCDate(targetDate, daysUntilTarget)

PastDateMessage == "Cannot schedule tasks in the past. Please choose a future date."

\* a faulty message: the phrase is not repeated
UnrecognizedDateMessage_NoEcho(input) ==
    "I couldn't understand the date. Try phrases like \"tomorrow\", \"next Monday\", "
    \o "\"in 3 days\", or a specific date."

UnrecognizedDateMessage(input) ==
    "I couldn't understand the date \"" \o input
    \o "\". Try phrases like \"tomorrow\", \"next Monday\", \"in 3 days\", or a specific date."

\* faulty branches: "tomorrow" is the reference instant a day later
TargetDate_TomorrowKeepsTime(normalized, referenceDate) ==
    IF normalized = "today" THEN <<setUTCHours(referenceDate, 12)>>
    ELSE IF normalized = "tonight" THEN <<setUTCHours(referenceDate, 20)>>
    ELSE IF normalized = "tomorrow"
    THEN <<addUTCDate(referenceDate, 1)>>
    ELSE IF normalized = "next week"
    THEN <<setUTCHours(addUTCDate(referenceDate, 7), 12)>>
    ELSE IF normalized = "next month"
    THEN <<setUTCHours(addUTCMonth(referenceDate, 1), 12)>>
    ELSE IF RelativeMatch(normalized) # <<>>
    THEN <<parseRelativeDate(normalized, referenceDate)>>
    ELSE IF startsWith(normalized, "next ")
            /\ isWeekdayName(SubSeq(normalized, 6, Len(normalized)))
    THEN <<getNextWeekday(SubSeq(normalized, 6, Len(normalized)), referenceDate, TRUE)>>
    ELSE IF isWeekdayName(normalized)
    THEN <<getNextWeekday(normalized, referenceDate, FALSE)>>
    ELSE IF startsWith(normalized, "this ")
            /\ isWeekdayName(SubSeq(normalized, 6, Len(normalized)))
    THEN <<getNextWeekday(SubSeq(normalized, 6, Len(normalized)), referenceDate, FALSE)>>
    ELSE <<>>

\* the branches of lines 43-91: <<>> when no branch matches, else <<targetDate>>
TargetDate(normalized, referenceDate) ==
    IF normalized = "today" THEN <<setUTCHours(referenceDate, 12)>>
    ELSE IF normalized = "tonight" THEN <<setUTCHours(referenceDate, 20)>>
    ELSE IF normalized = "tomorrow"
    THEN <<setUTCHours(addUTCDate(referenceDate, 1), 12)>>
    ELSE IF normalized = "next week"
    THEN <<setUTCHours(addUTCDate(referenceDate, 7), 12)>>
    ELSE IF normalized = "next month"
    THEN <<setUTCHours(addUTCMonth(referenceDate, 1), 12)>>
    ELSE IF RelativeMatch(normalized) # <<>>
    THEN <<parseRelativeDate(normalized, referenceDate)>>
    ELSE IF startsWith(normalized, "next ")
            /\ isWeekdayName(SubSeq(normalized, 6, Len(normalized)))
    THEN <<getNextWeekday(SubSeq(normalized, 6, Len(normalized)), referenceDate, TRUE)>>
    ELSE IF isWeekdayName(normalized)
    THEN <<getNextWeekday(normalized, referenceDate, FALSE)>>
    ELSE IF startsWith(normalized, "this ")
            /\ isWeekdayName(SubSeq(normalized, 6, Len(normalized)))
    THEN <<getNextWeekday(SubSeq(normalized, 6, Len(normalized)), referenceDate, FALSE)>>
    ELSE <<>>

\* a faulty parseNaturalDate: the check of lines 93-96 is missing
parseNaturalDate_NoFinalCheck(input, referenceDate, tzOffsetMinutes) ==
    LET normalized == trim(toLowerCase(input)) IN
    IF isISO8601(input)
    THEN LET date == NewDateFromISO(input, tzOffsetMinutes) IN
         IF date = InvalidDate THEN [ok |-> FALSE, message |-> "Invalid date format"]
         ELSE IF DateBefore(date, referenceDate)
         THEN [ok |-> FALSE, message |-> PastDateMessage]
         ELSE [ok |-> TRUE, value |-> toISOString(date), date |-> date]
    ELSE LET target == TargetDate(normalized, referenceDate) IN
         IF target = <<>>
         THEN [ok |-> FALSE, message |-> UnrecognizedDateMessage(input)]
         ELSE [ok |-> TRUE, value |-> toISOString(target[1]), date |-> target[1]]

\* parseNaturalDate: [ok |-> TRUE, value |-> the ISO string, date |-> the Date]
\* or [ok |-> FALSE, message |-> the message of the Error thrown]
parseNaturalDate(input, referenceDate, tzOffsetMinutes) ==
    LET normalized == trim(toLowerCase(input)) IN
    IF isISO8601(input)
    THEN LET date == NewDateFromISO(input, tzOffsetMinutes) IN
         IF date = InvalidDate THEN [ok |-> FALSE, message |-> "Invalid date format"]
         ELSE IF DateBefore(date, referenceDate)
         THEN [ok |-> FALSE, message |-> PastDateMessage]
         ELSE [ok |-> TRUE, value |-> toISOString(date), date |-> date]
    ELSE LET target == TargetDate(normalized, referenceDate) IN
         IF target = <<>>
         THEN [ok |-> FALSE, message |-> UnrecognizedDateMessage(input)]
         ELSE IF DateBefore(target[1], referenceDate)
         THEN [ok |-> FALSE, message |-> PastDateMessage]
         ELSE [ok |-> TRUE, value |-> toISOString(target[1]), date |-> target[1]]

(***************************************************************************)
(* Priority keyword mapper                                                 *)
(***************************************************************************)

PRIORITY_MAPPINGS ==
    << [keywords |-> {"low", "minor", "optional"}, value |-> 1, label |-> "Low"],
       [keywords |-> {"normal", "medium", "standard", "regular"}, value |-> 2,
        label |-> "Normal"],
       [keywords |-> {"high", "important", "elevated"}, value |-> 3, label |-> "High"],
       [keywords |-> {"urgent", "pressing", "time-sensitive", "time sensitive"},
        value |-> 4, label |-> "Urgent"],
       [keywords |-> {"critical", "severe", "blocking", "emergency"}, value |-> 5,
        label |-> "Critical"] >>

\* optional arguments: undefined, null, or a value
Undefined == [t |-> "undefined"]
Null == [t |-> "null"]
Str(v) == [t |-> "string", v |-> v]
Num(v) == [t |-> "number", v |-> v]
Bool(v) == [t |-> "boolean", v |-> v]

\* numbers that are not integers: v + f/1000 with f in 1..999, and NaN
Frac(v, f) == [t |-> "number", v |-> v, f |-> f]
NaN == [t |-> "number", nan |-> TRUE]

IsFrac(a) == "f" \in DOMAIN a

\* input >= n and input <= n for a number and an integer n
AtLeast(a, n) == a # NaN /\ a.v >= n
AtMost(a, n) == a # NaN /\ (IF IsFrac(a) THEN a.v < n ELSE a.v <= n)

\* `${value}` for a number
NumberToString(a) ==
    LET int == IF a.v < 0 THEN "-" \o NumToString(0 - a.v) ELSE NumToString(a.v)
        f3 == Digits[(a.f \div 100) + 1] \o Digits[((a.f \div 10) % 10) + 1]
              \o Digits[(a.f % 10) + 1]
        f == IF a.f % 100 = 0 THEN SubSeq(f3, 1, 1)
             ELSE IF a.f % 10 = 0 THEN SubSeq(f3, 1, 2) ELSE f3
    IN IF a = NaN THEN "NaN"
       ELSE IF IsFrac(a) THEN int \o "." \o f
       ELSE int

IsNullish(a) == a.t \in {"undefined", "null"}

\* the digits parseInt(s, 10) reads at the start of s (after an optional
\* sign); "" when it returns NaN
RECURSIVE LeadingDigits(_)
LeadingDigits(s) ==
    IF Len(s) > 0 /\ IsDigit(Head(s)) THEN Head(s) \o LeadingDigits(Tail(s)) ELSE ""

\* parseInt(normalized, 10): <<>> for NaN, else <<n>>
jsParseInt(s) ==
    LET neg == Len(s) > 0 /\ Head(s) = "-"
        body == IF Len(s) > 0 /\ Head(s) \in {"-", "+"} THEN Tail(s) ELSE s
        ds == LeadingDigits(body)
    IN IF Len(ds) = 0 THEN <<>>
       ELSE <<IF neg THEN 0 - parseInt(ds) ELSE parseInt(ds)>>

\* a faulty FirstMapping: the last mapping that matches wins
FirstMapping_LastMatch(normalized) ==
    LET hit == { k \in 1..Len(PRIORITY_MAPPINGS) :
                   \E w \in PRIORITY_MAPPINGS[k].keywords : includes(normalized, w) }
    IN IF hit = {} THEN 0 ELSE CHOOSE k \in hit : \A j \in hit : k >= j

\* the first mapping one of whose keywords the string contains: 0 if none
FirstMapping(normalized) ==
    LET hit == { k \in 1..Len(PRIORITY_MAPPINGS) :
                   \E w \in PRIORITY_MAPPINGS[k].keywords : includes(normalized, w) }
    IN IF hit = {} THEN 0 ELSE CHOOSE k \in hit : \A j \in hit : k <= j

\* a faulty parsePriority: the upper end of the range is not tested
parsePriority_NoUpperEnd(input) ==
    IF IsNullish(input) THEN Null
    ELSE IF input.t = "number"
    THEN (IF AtLeast(input, 1) THEN input ELSE Null)
    ELSE LET normalized == trim(toLowerCase(input.v))
             numericValue == jsParseInt(normalized)
         IN IF numericValue # <<>> /\ numericValue[1] >= 1
            THEN Num(numericValue[1])
            ELSE IF FirstMapping(normalized) = 0 THEN Null
            ELSE Num(PRIORITY_MAPPINGS[FirstMapping(normalized)].value)

\* parsePriority: Null, or the number returned
parsePriority(input) ==
    IF IsNullish(input) THEN Null
    ELSE IF input.t = "number"
    THEN (IF AtLeast(input, 1) /\ AtMost(input, 5) THEN input ELSE Null)
    ELSE LET normalized == trim(toLowerCase(input.v))
             numericValue == jsParseInt(normalized)
         IN IF numericValue # <<>> /\ numericValue[1] >= 1 /\ numericValue[1] <= 5
            THEN Num(numericValue[1])
            ELSE IF FirstMapping(normalized) = 0 THEN Null
            ELSE Num(PRIORITY_MAPPINGS[FirstMapping(normalized)].value)

\* a faulty formatPriority: a falsy value, 0 among them, gives ''
formatPriority_Falsy(value) ==
    IF IsNullish(value) \/ value = Num(0) THEN ""
    ELSE IF \E k \in 1..Len(PRIORITY_MAPPINGS) : Num(PRIORITY_MAPPINGS[k].value) = value
    THEN PRIORITY_MAPPINGS[CHOOSE k \in 1..Len(PRIORITY_MAPPINGS) :
                               Num(PRIORITY_MAPPINGS[k].value) = value].label
    ELSE "Priority " \o NumberToString(value)

\* formatPriority
formatPriority(value) ==
    IF IsNullish(value) THEN ""
    ELSE IF \E k \in 1..Len(PRIORITY_MAPPINGS) : Num(PRIORITY_MAPPINGS[k].value) = value
    THEN PRIORITY_MAPPINGS[CHOOSE k \in 1..Len(PRIORITY_MAPPINGS) :
                               Num(PRIORITY_MAPPINGS[k].value) = value].label
    ELSE "Priority " \o NumberToString(value)

\* `${priority}` in the tools' messages
ArgToString(a) == IF a.t = "number" THEN NumToString(a.v) ELSE a.v

InvalidPriorityMessage(priority) ==
    "I couldn't understand the priority \"" \o ArgToString(priority)
    \o "\". Please use low, normal, high, urgent, critical, or a number from 1 to 5."

(***************************************************************************)
(* The remote task API (a black box to the tools) and the frontend         *)
(***************************************************************************)

MaxTasks == 3

Titles == {"Call Mom", "Buy milk", "buy eggs"}

\* the opaque ids the remote gives its tasks
IdPool == <<"id-c", "id-a", "id-d", "id-b", "id-e", "id-f">>

Task(id, title) == [id |-> id, title |-> title, completed |-> FALSE]

\* the collections the remote may hold when a tool is invoked
InitialCollections ==
    UNION { { [i \in 1..n |-> Task(IdPool[i], f[i])] : f \in [1..n -> Titles] } :
            n \in 0..MaxTasks }

\* the id the remote assigns to a created task
NewId(ts) ==
    IdPool[CHOOSE i \in 1..Len(IdPool) :
               /\ \A k \in 1..Len(ts) : ts[k].id # IdPool[i]
               /\ \A j \in 1..(i - 1) : \E k \in 1..Len(ts) : ts[k].id = IdPool[j]]

HasTask(ts, id) == \E k \in 1..Len(ts) : ts[k].id = id

TaskById(ts, id) == ts[CHOOSE k \in 1..Len(ts) : ts[k].id = id]

\* the body fields a PATCH carries, applied to one task
Patched(task, body) ==
    [id |-> task.id,
     title |-> IF "title" \in DOMAIN body THEN body.title ELSE task.title,
     completed |-> IF "completed" \in DOMAIN body THEN body.completed
                   ELSE task.completed]

RECURSIVE Without(_, _)
Without(ts, id) ==
    IF Len(ts) = 0 THEN <<>>
    ELSE IF Head(ts).id = id THEN Without(Tail(ts), id)
    ELSE <<Head(ts)>> \o Without(Tail(ts), id)

\* the collection after the remote has carried out a request
RemoteEffect(req, ts) ==
    IF req.method = "POST" THEN Append(ts, Task(NewId(ts), req.body.title))
    ELSE IF req.method = "PATCH"
    THEN [k \in 1..Len(ts) |->
            IF ts[k].id = req.target[1] THEN Patched(ts[k], req.body) ELSE ts[k]]
    ELSE IF req.method = "DELETE" THEN Without(ts, req.target[1])
    ELSE ts

RECURSIVE SubLists(_)
SubLists(ts) ==
    IF Len(ts) = 0 THEN {<<>>}
    ELSE LET rest == SubLists(Tail(ts))
         IN rest \cup { <<Head(ts)>> \o r : r \in rest }

\* the JSON bodies a 2xx response to a request may carry: the whole list for
\* an unfiltered listing, some sub-list chosen by the remote for a filtered
\* one, the task concerned for a mutation
ResponseBodies(req, ts) ==
    IF req.method = "GET"
    THEN (IF req.params = {} THEN {ts} ELSE SubLists(ts))
    ELSE IF req.method = "POST" THEN {Task(NewId(ts), req.body.title)}
    ELSE IF req.method = "PATCH" THEN {Patched(TaskById(ts, req.target[1]), req.body)}
    ELSE {TaskById(ts, req.target[1])}

\* the statuses of the non-2xx responses the remote may give
ErrorStatuses == {400, 404, 500}

\* fetchWithErrorHandling, line 81
StatusMessage(status) == "API request failed with status " \o NumToString(status)

\* message of the TypeError fetch() rejects with when the exchange fails
FetchFailedMessage == "fetch failed"

\* message of the SyntaxError response.json() rejects with
JsonErrorMessage == "Unexpected token < in JSON at position 0"

\* what one HTTP attempt may come to: how fn settles (the outcome) and the
\* collection the remote is left with.  A 2xx response carries a JSON body
\* (json = <<body>>) or an unreadable one (json = <<>>); the target of a
\* PATCH or DELETE must exist for a 2xx; an attempt that is still pending
\* when the timer fires may or may not have been carried out.
HttpAttempts(req, ts) ==
    LET exists == req.target = <<>> \/ HasTask(ts, req.target[1])
        done == RemoteEffect(req, ts)
    IN { [outcome |-> [kind |-> "reject", message |-> FetchFailedMessage], tasks |-> ts],
         [outcome |-> [kind |-> "pending"], tasks |-> ts] }
       \cup { [outcome |-> [kind |-> "reject", message |-> StatusMessage(c)], tasks |-> ts] :
                c \in ErrorStatuses }
       \cup (IF exists
             THEN { [outcome |-> [kind |-> "pending"], tasks |-> done],
                    [outcome |-> [kind |-> "resolve", value |-> [json |-> <<>>]],
                     tasks |-> done] }
                  \cup { [outcome |-> [kind |-> "resolve", value |-> [json |-> <<b>>]],
                          tasks |-> done] : b \in ResponseBodies(req, ts) }
             ELSE {})

(***************************************************************************)
(* Command tools                                                           *)
(***************************************************************************)

\* faulty options: one retry more
FetchRetryOptions_OneMore == [maxRetries |-> 3, initialDelayMs |-> 500, timeoutMs |-> 8000]

\* the options of fetchWithErrorHandling's withRetry call
FetchRetryOptions == [maxRetries |-> 2, initialDelayMs |-> 500, timeoutMs |-> 8000]

\* the withRetry frame is gone once its caller has taken the result
withRetryLeave ==
    /\ opts' = DEFAULT_RETRY_OPTIONS
    /\ attempt' = 0
    /\ lastError' = <<>>
    /\ rpc' = "idle"
    /\ calls' = 0
    /\ sleeps' = <<>>
    /\ settled' = <<>>

\* fetchWithErrorHandling(url, options): enter withRetry, send the first attempt
fetchWithErrorHandling(req) ==
    /\ withRetryEnter(FetchRetryOptions)
    /\ request' = req
    /\ requests' = Append(requests, req)

GetRequest(params) == [method |-> "GET", target |-> <<>>, body |-> <<>>, params |-> params]

MutationRequest(method, target, body) ==
    [method |-> method, target |-> target, body |-> body, params |-> {}]

\* how execute ends: by returning a string, or by throwing
Returned(str) == [kind |-> "return", value |-> str]

Thrown(message) == [kind |-> "throw", message |-> message]

\* faulty catch blocks: update_task and delete_task rethrow what is not a
\* clarification message
ToolCatch_Rethrow(tool, message) ==
    IF tool = "create_task"
    THEN Returned(formatErrorForTTS(message, "create that task"))
    ELSE IF tool = "get_tasks"
    THEN Returned(formatErrorForTTS(message, "retrieve your tasks"))
    ELSE IF \/ includes(message, "Multiple tasks match")
            \/ includes(message, "No task found")
            \/ includes(message, "doesn't exist")
    THEN Returned(message)
    ELSE Thrown(message)

\* faulty catch blocks: update_task and delete_task return the message of
\* whatever was thrown
ToolCatch_RawMessage(tool, message) ==
    IF tool = "create_task"
    THEN Returned(formatErrorForTTS(message, "create that task"))
    ELSE IF tool = "get_tasks"
    THEN Returned(formatErrorForTTS(message, "retrieve your tasks"))
    ELSE Returned(message)

\* the operation label each catch block gives to formatErrorForTTS
OperationLabel(tool) ==
    IF tool = "create_task" THEN "create that task"
    ELSE IF tool = "get_tasks" THEN "retrieve your tasks"
    ELSE IF tool = "update_task" THEN "update that task"
    ELSE "delete that task"

\* the catch blocks of the four tools, for an Error thrown inside the try
ToolCatch(tool, message) ==
    IF tool = "create_task"
    THEN Returned(formatErrorForTTS(message, "create that task"))
    ELSE IF tool = "get_tasks"
    THEN Returned(formatErrorForTTS(message, "retrieve your tasks"))
    ELSE IF \/ includes(message, "Multiple tasks match")
            \/ includes(message, "No task found")
            \/ includes(message, "doesn't exist")
    THEN Returned(message)
    ELSE Returned(formatErrorForTTS(message,
                      IF tool = "update_task" THEN "update that task"
                      ELSE "delete that task"))

\* execute ends as r, with nothing left in flight
ToolEnds(r) ==
    /\ result' = <<r>>
    /\ tpc' = "done"
    /\ request' = <<>>
    /\ withRetryLeave

\* a faulty sendDataToFrontend: a publication that fails is tried again
sendDataToFrontend_SentAgain(type) ==
    IF room = "absent" THEN UNCHANGED published
    ELSE \/ published' = Append(published, type)
         \/ published' = Append(Append(published, type), type)
         \/ UNCHANGED published

\* sendDataToFrontend: nothing without a room; else publishData succeeds, or
\* fails and the failure is caught
sendDataToFrontend(type) ==
    IF room = "absent" THEN UNCHANGED published
    ELSE \/ published' = Append(published, type)
         \/ UNCHANGED published

\* the instants new Date() may give while a tool runs
\* (2024-01-15T10:00:00Z and 2024-01-15T21:30:00Z)
Nows == { [day |-> 19737, ms |-> 10 * MsPerHour],
          [day |-> 19737, ms |-> 21 * MsPerHour + 30 * MsPerMinute] }

\* the host's time zone offsets, in minutes
TzOffsets == {0, -300}

\* a faulty update_task: a body without fields is sent as well
UpdateBody_EmptyBodySent(args, now, tz) ==
    LET date == IF IsNullish(args.scheduled_time) THEN [ok |-> TRUE, value |-> ""]
                ELSE parseNaturalDate(args.scheduled_time.v, now, tz)
        prio == parsePriority(args.priority)
        fields == (IF IsNullish(args.title) THEN {} ELSE {"title"})
                  \cup (IF IsNullish(args.scheduled_time) THEN {} ELSE {"scheduled_time"})
                  \cup (IF IsNullish(args.priority) THEN {} ELSE {"priority_index"})
                  \cup (IF IsNullish(args.completed) THEN {} ELSE {"completed"})
    IN IF ~date.ok THEN [ok |-> FALSE, message |-> date.message]
       ELSE IF ~IsNullish(args.priority) /\ prio = Null
       THEN [ok |-> FALSE, message |-> InvalidPriorityMessage(args.priority)]
       ELSE [ok |-> TRUE,
             body |-> [k \in fields |->
                         IF k = "title" THEN args.title.v
                         ELSE IF k = "scheduled_time" THEN date.value
                         ELSE IF k = "priority_index" THEN prio
                         ELSE args.completed.v]]

\* update_task lines 422-459: the body built from the arguments, or the string
\* returned early; now and tz are what the host gives parseNaturalDate
UpdateBody(args, now, tz) ==
    LET date == IF IsNullish(args.scheduled_time) THEN [ok |-> TRUE, value |-> ""]
                ELSE parseNaturalDate(args.scheduled_time.v, now, tz)
        prio == parsePriority(args.priority)
        fields == (IF IsNullish(args.title) THEN {} ELSE {"title"})
                  \cup (IF IsNullish(args.scheduled_time) THEN {} ELSE {"scheduled_time"})
                  \cup (IF IsNullish(args.priority) THEN {} ELSE {"priority_index"})
                  \cup (IF IsNullish(args.completed) THEN {} ELSE {"completed"})
    IN IF ~date.ok THEN [ok |-> FALSE, message |-> date.message]
       ELSE IF ~IsNullish(args.priority) /\ prio = Null
       THEN [ok |-> FALSE, message |-> InvalidPriorityMessage(args.priority)]
       ELSE IF fields = {}
       THEN [ok |-> FALSE,
             message |-> "No changes specified. Please tell me what you'd like to update."]
       ELSE [ok |-> TRUE,
             body |-> [k \in fields |->
                         IF k = "title" THEN args.title.v
                         ELSE IF k = "scheduled_time" THEN date.value
                         ELSE IF k = "priority_index" THEN prio
                         ELSE args.completed.v]]

\* a faulty create_task: no priority_index is sent when no priority is given
CreateBody_NoDefault(args, now, tz) ==
    LET hasDate == ~IsNullish(args.scheduled_time) /\ args.scheduled_time.v # ""
        date == IF hasDate THEN parseNaturalDate(args.scheduled_time.v, now, tz)
                ELSE [ok |-> TRUE, value |-> ""]
        prio == parsePriority(args.priority)
        fields == {"title"}
                  \cup (IF prio = Null THEN {} ELSE {"priority_index"})
                  \cup (IF hasDate THEN {"scheduled_time"} ELSE {})
    IN IF ~date.ok THEN [ok |-> FALSE, message |-> date.message]
       ELSE IF prio = Null /\ ~IsNullish(args.priority)
       THEN [ok |-> FALSE, message |-> InvalidPriorityMessage(args.priority)]
       ELSE [ok |-> TRUE,
             body |-> [k \in fields |->
                         IF k = "title" THEN args.title
                         ELSE IF k = "scheduled_time" THEN date.value
                         ELSE prio]]

\* a faulty create_task: a priority that cannot be parsed is replaced by the
\* default
CreateBody_DefaultsBadPriority(args, now, tz) ==
    LET hasDate == ~IsNullish(args.scheduled_time) /\ args.scheduled_time.v # ""
        date == IF hasDate THEN parseNaturalDate(args.scheduled_time.v, now, tz)
                ELSE [ok |-> TRUE, value |-> ""]
        prio == parsePriority(args.priority)
        fields == {"title", "priority_index"}
                  \cup (IF hasDate THEN {"scheduled_time"} ELSE {})
    IN IF ~date.ok THEN [ok |-> FALSE, message |-> date.message]
       ELSE [ok |-> TRUE,
             body |-> [k \in fields |->
                         IF k = "title" THEN args.title
                         ELSE IF k = "scheduled_time" THEN date.value
                         ELSE IF prio = Null THEN Num(1) ELSE prio]]

\* create_task lines 219-253: the body built from the arguments, or the
\* string returned early
CreateBody(args, now, tz) ==
    LET hasDate == ~IsNullish(args.scheduled_time) /\ args.scheduled_time.v # ""
        date == IF hasDate THEN parseNaturalDate(args.scheduled_time.v, now, tz)
                ELSE [ok |-> TRUE, value |-> ""]
        prio == parsePriority(args.priority)
        fields == {"title", "priority_index"}
                  \cup (IF hasDate THEN {"scheduled_time"} ELSE {})
    IN IF ~date.ok THEN [ok |-> FALSE, message |-> date.message]
       ELSE IF prio = Null /\ ~IsNullish(args.priority)
       THEN [ok |-> FALSE, message |-> InvalidPriorityMessage(args.priority)]
       ELSE [ok |-> TRUE,
             body |-> [k \in fields |->
                         IF k = "title" THEN args.title
                         ELSE IF k = "scheduled_time" THEN date.value
                         ELSE IF prio = Null THEN Num(1) ELSE prio]]

\* JavaScript truthiness of an optional argument
Truthy(a) ==
    IF IsNullish(a) THEN FALSE
    ELSE IF a.t = "string" THEN a.v # ""
    ELSE IF a.t = "number" THEN a.v # 0
    ELSE a.v

\* get_tasks lines 329-356: the query parameters sent
GetParams(args) ==
    (IF Truthy(args.query) THEN {"query"} ELSE {})
    \cup (IF parsePriority(args.priority) # Null THEN {"priority"} ELSE {})
    \cup (IF /\ Truthy(args.scheduled)
             /\ args.scheduled.v # "all"
             /\ trim(args.scheduled.v) # ""
             /\ Len(args.scheduled.v) >= 10
             /\ AllDigits(SubSeq(args.scheduled.v, 1, 4))
             /\ SubSeq(args.scheduled.v, 5, 5) = "-"
             /\ AllDigits(SubSeq(args.scheduled.v, 6, 7))
             /\ SubSeq(args.scheduled.v, 8, 8) = "-"
             /\ AllDigits(SubSeq(args.scheduled.v, 9, 10))
          THEN {"scheduled"} ELSE {})

\* get_tasks lines 371-380
GetTasksResult(args, fetched) ==
    IF Len(fetched) = 0
    THEN (IF Truthy(args.query) \/ Truthy(args.priority) \/ Truthy(args.scheduled)
          THEN "No tasks found" ELSE "No tasks")
    ELSE "Found " \o NumToString(Len(fetched)) \o " task" \o Plural(Len(fetched))

\* a faulty update_task: the confirmation names the task
UpdateResult_NamesTask(args, task) ==
    IF args.completed # Undefined
    THEN (IF task.completed THEN "Marked complete" ELSE "Marked incomplete")
    ELSE "Updated " \o task.title

\* update_task lines 480-485
UpdateResult(args, task) ==
    IF args.completed # Undefined
    THEN (IF task.completed THEN "Marked complete" ELSE "Marked incomplete")
    ELSE "Updated"

(***************************************************************************)
(* The executor on its own: any options, any operation                     *)
(***************************************************************************)

MaxRetriesBound == 3

\* options a call site may pass
OptionSets ==
    { [maxRetries |-> 2, initialDelayMs |-> 500, timeoutMs |-> 8000] }
    \cup { << >> }
    \cup { [maxRetries |-> n, initialDelayMs |-> d, maxDelayMs |-> c,
            backoffMultiplier |-> b, shouldRetry |-> p] :
             n \in 0..MaxRetriesBound, d \in {500, 1000}, c \in {3000},
             b \in {0, 1, 3}, p \in {"default", "retryAll"} }

\* what one invocation of the operation may do
FnOutcomes ==
    { [kind |-> "resolve", value |-> "value"],
      [kind |-> "pending"],
      [kind |-> "reject", message |-> "API request failed with status 404"],
      [kind |-> "reject", message |-> "API request failed with status 503"],
      [kind |-> "reject", message |-> "fetch failed"] }

\* the agent module as loaded: nothing greeted, no signal received
InitAgent ==
    /\ greetings = <<>>
    /\ greetingPlayedRooms = {}
    /\ isShuttingDown = FALSE
    /\ cleanup = <<>>
    /\ signals = <<>>
    /\ exited = FALSE

InitExecutor ==
    /\ opts = DEFAULT_RETRY_OPTIONS
    /\ attempt = 0
    /\ lastError = <<>>
    /\ rpc = "idle"
    /\ calls = 0
    /\ sleeps = <<>>
    /\ history = <<>>
    /\ settled = <<>>

\* the remote and the tools play no part in this specification
InitRetry ==
    /\ InitExecutor
    /\ InitAgent
    /\ tasks = <<>>
    /\ room = "absent"
    /\ published = <<>>
    /\ call = <<>>
    /\ tpc = "idle"
    /\ request = <<>>
    /\ requests = <<>>
    /\ resolution = <<>>
    /\ result = <<>>
    /\ invocations = <<>>

\* withRetry(fn, o) is called
RetryCall ==
    /\ \E o \in OptionSets : rpc = "idle" /\ withRetryEnter(o)
    /\ UNCHANGED <<history, agentVars, invocations, remoteVars, toolVars>>

\* the attempt in flight comes to an end
RetrySettle ==
    /\ \E out \in FnOutcomes :
          /\ withRetrySettle(out)
          /\ history' = Append(history, out)
    /\ UNCHANGED <<remoteVars, toolVars, invocations, agentVars>>

\* the back-off sleep ends
RetryWake ==
    /\ withRetryWake
    /\ UNCHANGED <<history, agentVars, invocations, remoteVars, toolVars>>

NextRetry == RetryCall \/ RetrySettle \/ RetryWake

SpecRetry == InitRetry /\ [][NextRetry]_vars

(***************************************************************************)
(* One tool invocation against the remote API                              *)
(***************************************************************************)

\* 'a'.repeat(600)
LongTitle ==
    "aaaaaaaaaaaaaaaaaaaaaaaaaaaaaaaaaaaaaaaaaaaaaaaaaaaaaaaaaaaaaaaaaaaaaaaaaaaaaaaaaaaaaaaaaaaaaaaaaaaaaaaaaaaaaaaaaaaaaaaaaaaaaaaaaaaaaaaaaaaaaaaaaaaaaaaaaaaaaaaaaaaaaaaaaaaaaaaaaaaaaaaaaaaaaaaaaaaaaaaaaaaaaaaaaaaaaaaaaaaaaaaaaaaaaaaaaaaaaaaaaaaaaaaaaaaaaaaaaaaaaaaaaaaaaaaaaaaaaaaaaaaaaaaaaaaaaaaaaaaaaaaaaaaaaaaaaaaaaaaaaaaaaaaaaaaaaaaaaaaaaaaaaaaaaaaaaaaaaaaaaaaaaaaaaaaaaaaaaaaaaaaaaaaaaaaaaaaaaaaaaaaaaaaaaaaaaaaaaaaaaaaaaaaaaaaaaaaaaaaaaaaaaaaaaaaaaaaaaaaaaaaaaaaaaaaaaaaaaaaaaaaaaaaaaaaaaaaaaaaaaaaaaaaaaaaaaaaaaaaaaaaaaaaaaaaaaaaaaaaaaaaaaaaaaaaaaaaaaaaaaaaaaaaaaaaaaaaaaaaaaaaaaaaaaaaaaaaaaaaa"

UpdateArgs ==
    { [title |-> Undefined, scheduled_time |-> Undefined, priority |-> Undefined,
       completed |-> c] : c \in {Undefined, Null, Bool(TRUE), Bool(FALSE)} }
    \cup { [title |-> Str("Buy bread"), scheduled_time |-> Str("tomorrow"),
            priority |-> Str("urgent"), completed |-> Undefined],
           [title |-> Undefined, scheduled_time |-> Str("today"),
            priority |-> Undefined, completed |-> Bool(TRUE)],
           [title |-> Undefined, scheduled_time |-> Str("someday"),
            priority |-> Undefined, completed |-> Bool(TRUE)],
           [title |-> Undefined, scheduled_time |-> Undefined,
            priority |-> Num(7), completed |-> Bool(TRUE)],
           [title |-> Str(""), scheduled_time |-> Undefined,
            priority |-> Undefined, completed |-> Undefined],
           [title |-> Str(LongTitle), scheduled_time |-> Undefined,
            priority |-> Undefined, completed |-> Undefined],
           [title |-> Str("Buy bread"), scheduled_time |-> Undefined,
            priority |-> Undefined, completed |-> Null],
           [title |-> Null, scheduled_time |-> Null,
            priority |-> Null, completed |-> Null] }

CreateArgs ==
    { [title |-> t, scheduled_time |-> d, priority |-> p] :
        t \in {"Buy bread", ""},
        d \in {Undefined, Str(""), Str("tomorrow"), Str("today"), Str("2020-01-01")},
        p \in {Undefined, Str("high"), Str("bogus")} }
    \cup { [title |-> LongTitle, scheduled_time |-> Undefined, priority |-> Undefined] }
    \cup { [title |-> "Buy bread", scheduled_time |-> Undefined, priority |-> p] :
             p \in {Null, Num(3), Num(5), Num(0), Num(7), Str("2"), Frac(2, 500)} }

GetArgs ==
    { [query |-> q, priority |-> p, scheduled |-> d] :
        q \in {Undefined, Str("buy")},
        p \in {Undefined, Str("low"), Num(9)},
        d \in {Undefined, Str("2024-12-25")} }

\* UpdateBody and CreateBody over the arguments and the instants above,
\* computed once
UpdateBodies ==
    [args \in UpdateArgs, now \in Nows, tz \in TzOffsets |-> UpdateBody(args, now, tz)]

CreateBodies ==
    [args \in CreateArgs, now \in Nows, tz \in TzOffsets |-> CreateBody(args, now, tz)]

\* no tool is running
InitTool ==
    /\ published = <<>>
    /\ call = <<>>
    /\ tpc = "idle"
    /\ request = <<>>
    /\ requests = <<>>
    /\ resolution = <<>>
    /\ result = <<>>
    /\ invocations = <<>>

\* delete_task.execute up to its first await: resolveTaskIdentifier starts
\* and getAllTasks sends GET /api/tasks
delete_task(identifier) ==
    /\ tpc = "idle"
    /\ call' = <<[tool |-> "delete_task", identifier |-> identifier]>>
    /\ tpc' = "resolving"
    /\ fetchWithErrorHandling(GetRequest({}))
    /\ invocations' = Append(invocations, <<>>)
    /\ UNCHANGED <<history, agentVars, remoteVars, resolution, result>>

\* update_task.execute up to its first await
update_task(identifier, args) ==
    /\ tpc = "idle"
    /\ call' = <<[tool |-> "update_task", identifier |-> identifier, args |-> args]>>
    /\ tpc' = "resolving"
    /\ fetchWithErrorHandling(GetRequest({}))
    /\ invocations' = Append(invocations, <<>>)
    /\ UNCHANGED <<history, agentVars, remoteVars, resolution, result>>

\* create_task.execute up to its first await or its early return
create_task(args) ==
    \E now \in Nows, tz \in TzOffsets :
        LET built == CreateBodies[args, now, tz] IN
        /\ tpc = "idle"
        /\ call' = <<[tool |-> "create_task", args |-> args]>>
        /\ IF built.ok
           THEN /\ tpc' = "mutating"
                /\ fetchWithErrorHandling(MutationRequest("POST", <<>>, built.body))
                /\ UNCHANGED result
           ELSE /\ ToolEnds(Returned(built.message))
                /\ UNCHANGED requests
        /\ UNCHANGED <<history, agentVars, invocations, remoteVars, resolution>>

\* get_tasks.execute up to its first await or its early return
get_tasks(args) ==
    /\ tpc = "idle"
    /\ call' = <<[tool |-> "get_tasks", args |-> args]>>
    /\ IF parsePriority(args.priority) = Null /\ ~IsNullish(args.priority)
       THEN /\ ToolEnds(Returned(InvalidPriorityMessage(args.priority)))
            /\ UNCHANGED requests
       ELSE /\ tpc' = "listing"
            /\ fetchWithErrorHandling(GetRequest(GetParams(args)))
            /\ UNCHANGED result
    /\ UNCHANGED <<history, agentVars, invocations, remoteVars, resolution>>

\* the attempt in flight comes to an end in one of the given ways: the
\* remote answers (or not), and withRetry returns, gives up, or starts its
\* back-off sleep
HttpSettleAs(attempts) ==
    /\ \E a \in attempts :
          /\ withRetrySettle(a.outcome)
          /\ tasks' = a.tasks
          /\ invocations' =
                IF tpc = "resolving" /\ a.outcome.kind = "resolve"
                                     /\ a.outcome.value.json # <<>>
                THEN [invocations EXCEPT ![Len(invocations)] = a.outcome.value.json]
                ELSE invocations
    /\ UNCHANGED <<history, agentVars, room, published, toolVars>>

\* the back-off sleep ends and the request is sent again
HttpRetry ==
    /\ tpc \in {"resolving", "mutating", "listing"}
    /\ withRetryWake
    /\ requests' = IF rpc' = "awaiting" THEN Append(requests, request) ELSE requests
    /\ UNCHANGED <<history, agentVars, invocations, remoteVars, call, tpc, request, resolution, result>>

\* a faulty getAllTasks: the list fetched by the first invocation is kept
\* and handed out again
getAllTasks_Cached(response) ==
    IF Len(invocations) > 1 /\ invocations[1] # <<>>
    THEN invocations[1][1]
    ELSE response.json[1]

\* a faulty getAllTasks: the list is turned round, newest task first
getAllTasks_NewestFirst(response) ==
    [k \in 1..Len(response.json[1]) |->
        response.json[1][Len(response.json[1]) + 1 - k]]

\* getAllTasks, line 101: the list is the body of this fetch's response
getAllTasks(response) == response.json[1]

\* resolveTaskIdentifier resumes after getAllTasks, and update_task or
\* delete_task goes on to its mutation request or to its return
ResumeResolving ==
    /\ tpc = "resolving"
    /\ rpc \in {"returned", "thrown"}
    /\ LET c == call[1]
           s == settled[1]
           fetched == getAllTasks(s.value)
       IN
       IF s.kind = "reject"
       THEN /\ ToolEnds(ToolCatch(c.tool, s.message))
            /\ UNCHANGED <<requests, resolution>>
       ELSE IF s.value.json = <<>>
       THEN /\ ToolEnds(ToolCatch(c.tool, JsonErrorMessage))
            /\ UNCHANGED <<requests, resolution>>
       ELSE \E res \in {resolveTaskIdentifier(c.identifier, fetched)} :
            /\ resolution' = <<[snapshot |-> fetched, outcome |-> res]>>
            /\ IF ~res.ok
               THEN /\ ToolEnds(ToolCatch(c.tool, res.message))
                    /\ UNCHANGED requests
               ELSE IF c.tool = "delete_task"
               THEN /\ tpc' = "mutating"
                    /\ fetchWithErrorHandling(MutationRequest("DELETE", <<res.id>>, <<>>))
                    /\ UNCHANGED result
               ELSE \E now \in Nows, tz \in TzOffsets :
                      LET built == UpdateBodies[c.args, now, tz] IN
                      IF built.ok
                      THEN /\ tpc' = "mutating"
                           /\ fetchWithErrorHandling(
                                  MutationRequest("PATCH", <<res.id>>, built.body))
                           /\ UNCHANGED result
                      ELSE /\ ToolEnds(Returned(built.message))
                           /\ UNCHANGED requests
    /\ UNCHANGED <<history, agentVars, invocations, remoteVars, call>>

\* the tool resumes after its POST, PATCH or DELETE: it reads the response,
\* notifies the frontend and returns its confirmation
ResumeMutating ==
    /\ tpc = "mutating"
    /\ rpc \in {"returned", "thrown"}
    /\ LET c == call[1]
           s == settled[1]
       IN
       IF s.kind = "reject"
       THEN /\ ToolEnds(ToolCatch(c.tool, s.message))
            /\ UNCHANGED published
       ELSE IF s.value.json = <<>>
       THEN /\ ToolEnds(ToolCatch(c.tool, JsonErrorMessage))
            /\ UNCHANGED published
       ELSE IF c.tool = "create_task"
       THEN /\ sendDataToFrontend("TASK_CREATED")
            /\ ToolEnds(Returned("Task created"))
       ELSE IF c.tool = "update_task"
       THEN /\ sendDataToFrontend("TASK_UPDATED")
            /\ ToolEnds(Returned(UpdateResult(c.args, s.value.json[1])))
       ELSE /\ sendDataToFrontend("TASK_DELETED")
            /\ ToolEnds(Returned("Deleted"))
    /\ UNCHANGED <<history, agentVars, invocations, tasks, room, call, requests, resolution>>

\* get_tasks resumes after its GET
ResumeListing ==
    /\ tpc = "listing"
    /\ rpc \in {"returned", "thrown"}
    /\ LET c == call[1]
           s == settled[1]
       IN
       IF s.kind = "reject"
       THEN /\ ToolEnds(ToolCatch(c.tool, s.message))
            /\ UNCHANGED published
       ELSE IF s.value.json = <<>>
       THEN /\ ToolEnds(ToolCatch(c.tool, JsonErrorMessage))
            /\ UNCHANGED published
       ELSE /\ sendDataToFrontend("APPLY_FILTERS")
            /\ ToolEnds(Returned(GetTasksResult(c.args, s.value.json[1])))
    /\ UNCHANGED <<history, agentVars, invocations, tasks, room, call, requests, resolution>>

(***************************************************************************)
(* Spec: one invocation of any of the four tools, every behaviour of the   *)
(* network and of the remote                                               *)
(***************************************************************************)

TitleCycle == <<"Call Mom", "Buy milk", "buy eggs">>

\* the collections the tools are run against: n tasks, n = 0..MaxTasks
ToolCollections ==
    { [i \in 1..n |-> Task(IdPool[i], TitleCycle[((i - 1) % 3) + 1])] : n \in 0..MaxTasks }

\* identifiers of each kind: in range, out of range, ordinal, a title
\* fragment with several matches, with one, with none, and the empty string
ToolIdentifiers == {"1", NumToString(MaxTasks + 1), "2nd", "buy", "mom", "zzz", ""}

Init ==
    /\ InitExecutor
    /\ InitAgent
    /\ InitTool
    /\ tasks \in ToolCollections
    /\ room \in {"absent", "present"}

Call_create_task == \E args \in CreateArgs : create_task(args)

Call_get_tasks == \E args \in GetArgs : get_tasks(args)

Call_update_task ==
    \E identifier \in ToolIdentifiers, args \in UpdateArgs : update_task(identifier, args)

Call_delete_task == \E identifier \in ToolIdentifiers : delete_task(identifier)

HttpSettle ==
    /\ tpc \in {"resolving", "mutating", "listing"}
    /\ rpc = "awaiting"
    /\ HttpSettleAs(HttpAttempts(request, tasks))

Next ==
    \/ Call_create_task
    \/ Call_get_tasks
    \/ Call_update_task
    \/ Call_delete_task
    \/ HttpSettle
    \/ HttpRetry
    \/ ResumeResolving
    \/ ResumeMutating
    \/ ResumeListing

Spec == Init /\ [][Next]_vars

(***************************************************************************)
(* FairSpec: one invocation of any of the four tools with arguments of     *)
(* each kind (accepted, rejected by the date parser, rejected by the       *)
(* priority mapper, resolved, not resolved), every behaviour of the        *)
(* network and of the remote, and an event loop that keeps running         *)
(***************************************************************************)

FairIdentifiers == {"1", NumToString(MaxTasks + 1), "buy", "zzz"}

FairUpdateArgs ==
    { args \in UpdateArgs :
        /\ args.title = Undefined
        /\ args.scheduled_time \in {Undefined, Str("someday")}
        /\ args.completed \in {Undefined, Bool(TRUE)} }

FairCreateArgs ==
    { args \in CreateArgs :
        /\ args.title = "Buy bread"
        /\ args.scheduled_time \in {Undefined, Str("2020-01-01")}
        /\ args.priority \in {Undefined, Str("bogus")} }

FairGetArgs ==
    { args \in GetArgs :
        /\ args.query = Undefined
        /\ args.priority \in {Undefined, Num(9)}
        /\ args.scheduled = Undefined }

\* no task, or MaxTasks tasks
InitFair ==
    /\ InitExecutor
    /\ InitAgent
    /\ InitTool
    /\ tasks \in { ts \in ToolCollections : Len(ts) \in {0, MaxTasks} }
    /\ room \in {"absent", "present"}

Fair_create_task == \E args \in FairCreateArgs : create_task(args)

Fair_get_tasks == \E args \in FairGetArgs : get_tasks(args)

Fair_update_task ==
    \E identifier \in FairIdentifiers, args \in FairUpdateArgs :
        update_task(identifier, args)

Fair_delete_task == \E identifier \in FairIdentifiers : delete_task(identifier)

\* what the event loop does for a tool that has been invoked
Continue ==
    \/ HttpSettle
    \/ HttpRetry
    \/ ResumeResolving
    \/ ResumeMutating
    \/ ResumeListing

NextFair ==
    \/ Fair_create_task
    \/ Fair_get_tasks
    \/ Fair_update_task
    \/ Fair_delete_task
    \/ Continue

\* every attempt settles (withTimeout's timer fires at the latest), every
\* sleep ends and every continuation runs
FairSpec == InitFair /\ [][NextFair]_vars /\ WF_vars(Continue)

(***************************************************************************)
(* SpecResolve: the resolver, run by update_task and delete_task over      *)
(* every collection and a wide range of identifiers, up to the sending of  *)
(* the mutation request; the listing is answered at once, with the list    *)
(* or with a 404                                                           *)
(***************************************************************************)

PositionalIdentifiers ==
    { NumToString(n) : n \in 0..(MaxTasks + 1) }
    \cup { NumToString(n) \o suffix : n \in 0..(MaxTasks + 1), suffix \in OrdinalSuffixes }

TitleIdentifiers == {"buy", "MILK", "mom", "Buy Milk", "eggs", "zzz", "call  mom"}

\* an ordinal in upper case, an ordinal inside a phrase, leading zeros
OtherIdentifiers == {"2ND", "the 1st one", "02", ""}

Identifiers == PositionalIdentifiers \cup TitleIdentifiers \cup OtherIdentifiers

ResolveUpdateArgs ==
    { [title |-> Undefined, scheduled_time |-> Undefined, priority |-> Undefined,
       completed |-> Bool(TRUE)] }

\* titles that read as positions
NumberTitles == <<"2", "1st", "4", "3rd">>

\* collections whose titles read as positions other than their own
NumberedCollections ==
    { [i \in 1..n |-> Task(IdPool[i], NumberTitles[((i - 1) % 4) + 1])] : n \in 0..MaxTasks }

InitResolve ==
    /\ InitExecutor
    /\ InitAgent
    /\ InitTool
    /\ tasks \in InitialCollections \cup NumberedCollections
    /\ room = "present"

Resolve_update_task ==
    \E identifier \in Identifiers, args \in ResolveUpdateArgs :
        update_task(identifier, args)

Resolve_delete_task == \E identifier \in Identifiers : delete_task(identifier)

ListingAnswered ==
    /\ tpc = "resolving"
    /\ rpc = "awaiting"
    /\ HttpSettleAs({ a \in HttpAttempts(request, tasks) :
                        \/ a.outcome.kind = "resolve" /\ a.outcome.value.json # <<>>
                        \/ a.outcome = [kind |-> "reject", message |-> StatusMessage(404)] })

NextResolve ==
    \/ Resolve_update_task
    \/ Resolve_delete_task
    \/ ListingAnswered
    \/ ResumeResolving

SpecResolve == InitResolve /\ [][NextResolve]_vars

(***************************************************************************)
(* SpecSequence: update_task and delete_task invoked one after the other,  *)
(* while another client of the API removes tasks; each request is answered *)
(* at once, with a 2xx or with a 404                                       *)
(***************************************************************************)

MaxInvocations == 2

SequenceIdentifiers == {"1", "2nd", "buy"}

InitSequence ==
    /\ InitExecutor
    /\ InitAgent
    /\ InitTool
    /\ tasks \in { ts \in ToolCollections : Len(ts) = MaxTasks }
    /\ room = "present"

Sequence_update_task ==
    /\ Len(invocations) < MaxInvocations
    /\ \E identifier \in SequenceIdentifiers, args \in ResolveUpdateArgs :
          update_task(identifier, args)

Sequence_delete_task ==
    /\ Len(invocations) < MaxInvocations
    /\ \E identifier \in SequenceIdentifiers : delete_task(identifier)

MutationAnswered ==
    /\ tpc = "mutating"
    /\ rpc = "awaiting"
    /\ HttpSettleAs({ a \in HttpAttempts(request, tasks) :
                        \/ a.outcome.kind = "resolve" /\ a.outcome.value.json # <<>>
                        \/ a.outcome = [kind |-> "reject", message |-> StatusMessage(404)] })

\* the caller has taken the tool's result: the context is idle again and
\* keeps nothing of the invocation
ToolReturned ==
    /\ tpc = "done"
    /\ tpc' = "idle"
    /\ call' = <<>>
    /\ requests' = <<>>
    /\ resolution' = <<>>
    /\ result' = <<>>
    /\ UNCHANGED <<retryVars, history, agentVars, remoteVars, request, invocations>>

\* another client of the API deletes the first task of the collection
OtherClientDeletes ==
    /\ tasks # <<>>
    /\ tasks' = Tail(tasks)
    /\ UNCHANGED <<retryVars, history, agentVars, room, published, toolVars, invocations>>

NextSequence ==
    \/ Sequence_update_task
    \/ Sequence_delete_task
    \/ ListingAnswered
    \/ ResumeResolving
    \/ MutationAnswered
    \/ ResumeMutating
    \/ ToolReturned
    \/ OtherClientDeletes

SpecSequence == InitSequence /\ [][NextSequence]_vars

(***************************************************************************)
(* SpecRace: one update_task or delete_task with a positional identifier,  *)
(* while another channel (the web frontend, another session) inserts,      *)
(* deletes and reorders tasks between the listing and the mutation; each   *)
(* request is answered at once                                             *)
(***************************************************************************)

\* positional identifiers, with the position each names
Positions == {<<"1", 1>>, <<"2", 2>>, <<"2nd", 2>>, <<"3rd", 3>>}

RaceIdentifiers == { p[1] : p \in Positions }

InitRace ==
    /\ InitExecutor
    /\ InitAgent
    /\ InitTool
    /\ tasks \in { ts \in ToolCollections : Len(ts) >= 1 }
    /\ room = "present"

Race_update_task ==
    /\ invocations = <<>>
    /\ \E identifier \in RaceIdentifiers, args \in ResolveUpdateArgs :
          update_task(identifier, args)

Race_delete_task ==
    /\ invocations = <<>>
    /\ \E identifier \in RaceIdentifiers : delete_task(identifier)

\* the other channel acts after the listing has been answered and before the
\* mutation is: what it did earlier is in the collection the invocation
\* starts with
OtherChannelActs == tpc = "mutating" /\ rpc = "awaiting"

\* the ids the tool has been told of
SeenIds ==
    UNION { { invocations[i][1][k].id : k \in 1..Len(invocations[i][1]) } :
            i \in { j \in 1..Len(invocations) : invocations[j] # <<>> } }

\* the id the remote gives a task it creates now, if the pool has one left:
\* never one it has handed out in a listing
FreshIds ==
    LET free == { j \in 1..Len(IdPool) :
                    IdPool[j] \notin SeenIds /\ ~HasTask(tasks, IdPool[j]) }
    IN { IdPool[j] : j \in { i \in free : \A k \in free : i <= k } }

\* the other channel creates a task: it is listed first, or last
OtherClientInserts ==
    /\ OtherChannelActs
    /\ Len(tasks) < MaxTasks
    /\ \E id \in FreshIds :
          \/ tasks' = <<Task(id, "Pay rent")>> \o tasks
          \/ tasks' = Append(tasks, Task(id, "Pay rent"))
    /\ UNCHANGED <<retryVars, history, agentVars, room, published, toolVars, invocations>>

\* the other channel deletes a task
OtherClientRemoves ==
    /\ OtherChannelActs
    /\ \E k \in 1..Len(tasks) : tasks' = Without(tasks, tasks[k].id)
    /\ UNCHANGED <<retryVars, history, agentVars, room, published, toolVars, invocations>>

\* the other channel makes two neighbours of the listing change places
OtherClientReorders ==
    /\ OtherChannelActs
    /\ \E k \in 1..(Len(tasks) - 1) :
          tasks' = [tasks EXCEPT ![k] = tasks[k + 1], ![k + 1] = tasks[k]]
    /\ UNCHANGED <<retryVars, history, agentVars, room, published, toolVars, invocations>>

NextRace ==
    \/ Race_update_task
    \/ Race_delete_task
    \/ ListingAnswered
    \/ ResumeResolving
    \/ MutationAnswered
    \/ ResumeMutating
    \/ OtherClientInserts
    \/ OtherClientRemoves
    \/ OtherClientReorders

SpecRace == InitRace /\ [][NextRace]_vars

(***************************************************************************)
(* SpecStatus: get_tasks and delete_task against a remote that answers a   *)
(* request with a status of 400..599, or with a 2xx                        *)
(***************************************************************************)

\* the statuses of a response that is not ok, as far as the classifiers
\* tell them apart
StatusCodes == 400..599

StatusMessages == [c \in StatusCodes |-> StatusMessage(c)]

InitStatus ==
    /\ InitExecutor
    /\ InitAgent
    /\ InitTool
    /\ tasks \in { ts \in ToolCollections : Len(ts) = 1 }
    /\ room = "present"

Status_get_tasks ==
    /\ tpc = "idle"
    /\ get_tasks([query |-> Undefined, priority |-> Undefined, scheduled |-> Undefined])

Status_delete_task ==
    /\ tpc = "idle"
    /\ delete_task("1")

\* the response is not ok: fetchWithErrorHandling throws, line 81.  The
\* first attempt of a request is answered with any status; a later attempt
\* with the status of the attempt before, or with a 404
StatusAnswered ==
    /\ tpc \in {"resolving", "mutating", "listing"}
    /\ rpc = "awaiting"
    /\ HttpSettleAs({ [outcome |-> [kind |-> "reject", message |-> m], tasks |-> tasks] :
                        m \in IF lastError = <<>>
                              THEN { StatusMessages[c] : c \in StatusCodes }
                              ELSE { lastError[1], StatusMessages[404] } })

\* the response is ok and its body can be read
OkAnswered ==
    /\ tpc \in {"resolving", "mutating", "listing"}
    /\ rpc = "awaiting"
    /\ HttpSettleAs({ a \in HttpAttempts(request, tasks) :
                        a.outcome.kind = "resolve" /\ a.outcome.value.json # <<>> })

NextStatus ==
    \/ Status_get_tasks
    \/ Status_delete_task
    \/ StatusAnswered
    \/ OkAnswered
    \/ HttpRetry
    \/ ResumeResolving
    \/ ResumeMutating
    \/ ResumeListing

SpecStatus == InitStatus /\ [][NextStatus]_vars

(***************************************************************************)
(* SpecDate: parseNaturalDate called on its own, over phrases and ISO      *)
(* strings, reference instants and host time zones                         *)
(***************************************************************************)

\* the largest N of the phrases "in N <unit>" that are enumerated
MaxAmount == 3

\* the amounts N of the phrases "in N <unit>": 0..MaxAmount, and some of two
\* and three digits
RelativeAmounts == 0..MaxAmount \cup {10, 52, 365}

RelativePhrase(n, unit) == "in " \o NumToString(n) \o " " \o unit

\* phrases that are of none of the forms of lines 25-86
NoFormPhrases ==
    {"yesterday", "last week", "in -1 days", "", "   ", "in 5 years", "next year",
     "in 3 hours", "tomorow", "Someday soon", "in days", "monday next", "in  3 days",
     "day after tomorrow", "next", "this week", "in 1.5 days", "noon"}

\* recognised inputs written with other letter case or with white space
\* around them
SpellingVariants ==
    { [variant |-> "Today", of |-> "today", iso |-> FALSE],
      [variant |-> "  TONIGHT ", of |-> "tonight", iso |-> FALSE],
      [variant |-> "TOMORROW", of |-> "tomorrow", iso |-> FALSE],
      [variant |-> "NEXT WEEK", of |-> "next week", iso |-> FALSE],
      [variant |-> "Next Month\n", of |-> "next month", iso |-> FALSE],
      [variant |-> " in 3 Days", of |-> "in 3 days", iso |-> FALSE],
      [variant |-> "In 1 Month", of |-> "in 1 month", iso |-> FALSE],
      [variant |-> "\tFriday", of |-> "friday", iso |-> FALSE],
      [variant |-> "Next Monday", of |-> "next monday", iso |-> FALSE],
      [variant |-> "This Wednesday ", of |-> "this wednesday", iso |-> FALSE],
      [variant |-> " 2024-01-16", of |-> "2024-01-16", iso |-> TRUE],
      [variant |-> "2024-02-01 ", of |-> "2024-02-01", iso |-> TRUE],
      [variant |-> "2024-01-15t12:30:45.123z", of |-> "2024-01-15T12:30:45.123Z",
       iso |-> TRUE],
      [variant |-> "2024-01-31T12:00:00z", of |-> "2024-01-31T12:00:00Z", iso |-> TRUE] }

\* phrases of every branch of parseNaturalDate, in several spellings, and
\* phrases of no branch
Phrases ==
    {"today", "tonight", "tomorrow", "next week", "next month",
     "in 0 days", "in 1 day", "in 3 days", "in 2 weeks", "in 1 month", "in 13 months",
     "monday", "next monday", "this monday", "sunday", "next friday", "this wednesday",
     "Today", "  TONIGHT ", "Next Monday",
     "yesterday", "last week", "in -1 days", ""}
    \cup { Weekdays[i] : i \in 1..7 }
    \cup { "this " \o Weekdays[i] : i \in 1..7 }
    \cup { "next " \o Weekdays[i] : i \in 1..7 }
    \cup { RelativePhrase(n, u) : n \in RelativeAmounts, u \in RelativeUnits }
    \cup NoFormPhrases
    \cup { v.variant : v \in SpellingVariants }

\* strings in ISO 8601 form: dates, date-times in UTC, in local time, with
\* and without milliseconds, with an offset, without seconds
ISOStrings ==
    {"2024-01-15", "2024-01-16", "2024-02-01",
     "2024-01-15T10:00:00Z", "2024-01-15T09:59:59.999Z", "2024-01-15T12:30:45.123Z",
     "2024-01-15T23:00:00", "2024-01-15T21:30:00.000", "2024-01-31T12:00:00Z",
     "2024-01-15T23:59:59.999Z",
     "2030-06-01T10:00:00+02:00", "2024-01-15T08:00:00-05:00", "2030-06-01T10:00",
     "2024-13-01", "2024-01-15T25:00:00Z"}

\* reference instants: Monday 2024-01-15 at 10:00, at 12:00 to the
\* millisecond and one millisecond later, at 20:00, at 20:00:00.001 and at
\* 21:30; Wednesday 2024-01-31 at 09:00 and at 12:00:00.001; Sunday
\* 2024-02-04 at 00:00; Tuesday 2024-01-16 to Saturday 2024-01-20 at
\* several times; Thursday 2024-02-29 at 18:00; Tuesday 2024-12-31 at 23:00
ReferenceDates ==
    { [day |-> 19737, ms |-> 10 * MsPerHour],
      [day |-> 19737, ms |-> 12 * MsPerHour],
      [day |-> 19737, ms |-> 12 * MsPerHour + 1],
      [day |-> 19737, ms |-> 20 * MsPerHour],
      [day |-> 19737, ms |-> 20 * MsPerHour + 1],
      [day |-> 19737, ms |-> 21 * MsPerHour + 30 * MsPerMinute],
      [day |-> 19753, ms |-> 9 * MsPerHour],
      [day |-> 19753, ms |-> 12 * MsPerHour + 1],
      [day |-> 19757, ms |-> 0],
      [day |-> 19738, ms |-> 12 * MsPerHour],
      [day |-> 19739, ms |-> 23 * MsPerHour + 59 * MsPerMinute],
      [day |-> 19740, ms |-> 11 * MsPerHour + 59 * MsPerMinute],
      [day |-> 19741, ms |-> 12 * MsPerHour + 1],
      [day |-> 19742, ms |-> 0],
      [day |-> 19782, ms |-> 18 * MsPerHour],
      [day |-> 20088, ms |-> 23 * MsPerHour] }

InitDate ==
    /\ InitExecutor
    /\ InitAgent
    /\ InitTool
    /\ tasks = <<>>
    /\ room = "absent"

\* parseNaturalDate(input, referenceDate) on a host whose offset is tz
Call_parseNaturalDate ==
    /\ tpc = "idle"
    /\ \E input \in Phrases \cup ISOStrings, referenceDate \in ReferenceDates,
          tz \in TzOffsets :
          /\ call' = <<[tool |-> "parseNaturalDate", input |-> input,
                        referenceDate |-> referenceDate, tz |-> tz]>>
          /\ result' = <<parseNaturalDate(input, referenceDate, tz)>>
    /\ tpc' = "done"
    /\ UNCHANGED <<retryVars, history, agentVars, remoteVars, request, requests, resolution,
                   invocations>>

NextDate == Call_parseNaturalDate

SpecDate == InitDate /\ [][NextDate]_vars

(***************************************************************************)
(* SpecPriority: parsePriority and formatPriority called on their own, and *)
(* each on what the other returned                                         *)
(***************************************************************************)

\* the largest integer given to parsePriority and formatPriority
MaxPriorityNumber == 7

PriorityKeywords ==
    UNION { PRIORITY_MAPPINGS[k].keywords : k \in 1..Len(PRIORITY_MAPPINGS) }

\* what parsePriority is given: nothing, numbers in and out of the range,
\* integer or not, numeric strings, every keyword alone, padded and inside a
\* phrase, phrases with keywords of several sets, phrases with none
PriorityInputs ==
    {Undefined, Null, NaN}
    \cup { Num(n) : n \in -1..MaxPriorityNumber }
    \cup { Frac(0, 999), Frac(1, 500), Frac(2, 500), Frac(4, 999), Frac(5, 1), Frac(7, 250) }
    \cup { Str(NumToString(n)) : n \in 0..MaxPriorityNumber }
    \cup { Str("10"), Str("-3"), Str(" 4 "), Str("3.7"), Str("2abc"), Str("05"),
           Str("7 high"), Str("0 low") }
    \cup { Str(k) : k \in PriorityKeywords }
    \cup { Str(" " \o k \o " ") : k \in PriorityKeywords }
    \cup { Str("a " \o k \o " one") : k \in PriorityKeywords }
    \cup { Str("medium-high"), Str("high or low"), Str("low, then high"), Str("HIGH"),
           Str("Urgent"), Str("critical but optional"), Str("urgent and blocking"),
           Str("important emergency"), Str("slow"), Str("unimportant"),
           Str("bogus"), Str(""), Str("asap"), Str("top"), Str("hi") }

\* what formatPriority is given
FormatInputs == {Undefined, Null} \cup { Num(n) : n \in -1..MaxPriorityNumber } \cup {Num(99)}

InitPriority ==
    /\ InitExecutor
    /\ InitAgent
    /\ InitTool
    /\ tasks = <<>>
    /\ room = "absent"

Call_parsePriority ==
    /\ tpc = "idle"
    /\ \E input \in PriorityInputs :
          /\ call' = <<[tool |-> "parsePriority", input |-> input]>>
          /\ result' = <<parsePriority(input)>>
    /\ tpc' = "done"
    /\ UNCHANGED <<retryVars, history, agentVars, remoteVars, request, requests, resolution,
                   invocations>>

Call_formatPriority ==
    /\ tpc = "idle"
    /\ \E value \in FormatInputs :
          /\ call' = <<[tool |-> "formatPriority", input |-> value]>>
          /\ result' = <<formatPriority(value)>>
    /\ tpc' = "done"
    /\ UNCHANGED <<retryVars, history, agentVars, remoteVars, request, requests, resolution,
                   invocations>>

\* formatPriority(parsePriority(input))
Then_formatPriority ==
    /\ tpc = "done"
    /\ Len(call) = 1
    /\ call[1].tool = "parsePriority"
    /\ call' = Append(call, [tool |-> "formatPriority", input |-> result[1]])
    /\ result' = <<formatPriority(result[1])>>
    /\ UNCHANGED <<retryVars, history, agentVars, remoteVars, tpc, request, requests, resolution,
                   invocations>>

\* parsePriority(formatPriority(value).toLowerCase())
Then_parsePriority ==
    /\ tpc = "done"
    /\ Len(call) = 1
    /\ call[1].tool = "formatPriority"
    /\ call' = Append(call, [tool |-> "parsePriority",
                             input |-> Str(toLowerCase(result[1]))])
    /\ result' = <<parsePriority(Str(toLowerCase(result[1])))>>
    /\ UNCHANGED <<retryVars, history, agentVars, remoteVars, tpc, request, requests, resolution,
                   invocations>>

NextPriority ==
    \/ Call_parsePriority
    \/ Call_formatPriority
    \/ Then_formatPriority
    \/ Then_parsePriority

SpecPriority == InitPriority /\ [][NextPriority]_vars

(***************************************************************************)
(* SpecGreeting: playGreeting, called once per job that joins a room, any  *)
(* number of jobs of one process being under way at a time                 *)
(***************************************************************************)

GREETING_CONFIG == [message |-> "Hi, I'm Sid, how can I assist you today?", playOnce |-> TRUE]

\* the playGreeting calls of one process
MaxGreetings == 2

\* ctx.room.name: two rooms, and a room without a name
RoomNames == {"voice-todo-room", "other-room", ""}

\* ctx.room.metadata: none, the flag set, the flag as a string, text that is
\* not JSON, JSON that is no object
RoomMetadata ==
    {"", "{\"greetingPlayed\":true}", "{\"greetingPlayed\":\"true\"}", "not json", "null"}

\* JSON.parse on the strings of RoomMetadata: <<>> when it throws
JSONParse(text) ==
    IF text = "{\"greetingPlayed\":true}" THEN <<[greetingPlayed |-> Bool(TRUE)]>>
    ELSE IF text = "{\"greetingPlayed\":\"true\"}" THEN <<[greetingPlayed |-> Str("true")]>>
    ELSE IF text = "null" THEN <<Null>>
    ELSE <<>>

\* lines 39-49: greetingPlayed, false when the metadata is empty, cannot be
\* parsed, or is null (reading a property of null throws inside the try)
GreetingPlayed(roomMetadata) ==
    IF roomMetadata = "" THEN FALSE
    ELSE IF JSONParse(roomMetadata) = <<>> THEN FALSE
    ELSE IF JSONParse(roomMetadata)[1] = Null THEN FALSE
    ELSE JSONParse(roomMetadata)[1].greetingPlayed = Bool(TRUE)

hasGreetingBeenPlayed(roomName) == roomName \in greetingPlayedRooms

\* playGreeting up to its return at line 53 or its await at line 60
playGreeting(roomName, roomMetadata) ==
    /\ Len(greetings) < MaxGreetings
    /\ greetings' = Append(greetings,
                           [room |-> roomName, metadata |-> roomMetadata,
                            pc |-> IF GreetingPlayed(roomMetadata) THEN "skipped"
                                   ELSE "saying"])
    /\ UNCHANGED <<retryVars, history, remoteVars, toolVars, invocations,
                   greetingPlayedRooms, isShuttingDown, cleanup, signals, exited>>

Call_playGreeting ==
    /\ ~exited
    /\ \E roomName \in RoomNames, roomMetadata \in RoomMetadata :
          playGreeting(roomName, roomMetadata)

\* session.say resolves: lines 62-68
SayResolves ==
    \E i \in 1..Len(greetings) :
       /\ greetings[i].pc = "saying"
       /\ greetings' = [greetings EXCEPT ![i].pc = "played"]
       /\ greetingPlayedRooms' =
             IF greetings[i].room # "" THEN greetingPlayedRooms \cup {greetings[i].room}
             ELSE greetingPlayedRooms
       /\ UNCHANGED <<retryVars, history, remoteVars, toolVars, invocations,
                      isShuttingDown, cleanup, signals, exited>>

\* session.say rejects: the catch of lines 70-73
SayRejects ==
    \E i \in 1..Len(greetings) :
       /\ greetings[i].pc = "saying"
       /\ greetings' = [greetings EXCEPT ![i].pc = "failed"]
       /\ UNCHANGED <<retryVars, history, remoteVars, toolVars, invocations,
                      greetingPlayedRooms, isShuttingDown, cleanup, signals, exited>>

InitGreeting ==
    /\ InitExecutor
    /\ InitAgent
    /\ InitTool
    /\ tasks = <<>>
    /\ room = "present"

NextGreeting ==
    \/ Call_playGreeting
    \/ SayResolves
    \/ SayRejects

SpecGreeting == InitGreeting /\ [][NextGreeting]_vars

(***************************************************************************)
(* SpecShutdown: SIGINT and SIGTERM delivered to the agent process, in any *)
(* order and at any moment of cleanupOnExit                                *)
(***************************************************************************)

\* the signals delivered to one process
MaxSignals == 3

\* the dispatches listDispatch may return
MaxDispatches == 2

\* a faulty handler: the flag is set but not tested
onSignal_NoTest(signal) ==
    /\ signals' = Append(signals, signal)
    /\ isShuttingDown' = TRUE
    /\ cleanup' = Append(cleanup, [pc |-> "importing", by |-> signal, left |-> 0,
                                   deletedCount |-> 0])
    /\ UNCHANGED <<retryVars, history, remoteVars, toolVars, invocations,
                   greetings, greetingPlayedRooms, exited>>

\* the handler of lines 349-356 and 358-365, up to its return or to the
\* first await of cleanupOnExit (the dynamic import of line 309)
onSignal(signal) ==
    /\ signals' = Append(signals, signal)
    /\ IF isShuttingDown
       THEN UNCHANGED <<isShuttingDown, cleanup>>
       ELSE /\ isShuttingDown' = TRUE
            /\ cleanup' = Append(cleanup, [pc |-> "importing", by |-> signal, left |-> 0,
                                           deletedCount |-> 0])
    /\ UNCHANGED <<retryVars, history, remoteVars, toolVars, invocations,
                   greetings, greetingPlayedRooms, exited>>

SIGINT ==
    /\ ~exited
    /\ Len(signals) < MaxSignals
    /\ onSignal("SIGINT")

SIGTERM ==
    /\ ~exited
    /\ Len(signals) < MaxSignals
    /\ onSignal("SIGTERM")

\* cleanupOnExit resumes after the import: the import failed or the
\* credentials are missing (it returns), or listDispatch is called
CleanupImported ==
    /\ ~exited
    /\ \E i \in 1..Len(cleanup) :
          /\ cleanup[i].pc = "importing"
          /\ \E next \in {"finished", "listing"} :
                cleanup' = [cleanup EXCEPT ![i].pc = next]
    /\ UNCHANGED <<retryVars, history, remoteVars, toolVars, invocations,
                   greetings, greetingPlayedRooms, isShuttingDown, signals, exited>>

\* listDispatch rejects (the catch of line 341), or resolves with a list
DispatchesListed ==
    /\ ~exited
    /\ \E i \in 1..Len(cleanup) :
          /\ cleanup[i].pc = "listing"
          /\ \/ cleanup' = [cleanup EXCEPT ![i].pc = "finished"]
             \/ \E n \in 1..MaxDispatches :
                   cleanup' = [cleanup EXCEPT ![i].pc = "deleting", ![i].left = n]
    /\ UNCHANGED <<retryVars, history, remoteVars, toolVars, invocations,
                   greetings, greetingPlayedRooms, isShuttingDown, signals, exited>>

\* one deleteDispatch resolves or rejects (lines 332-338), and the loop goes on
DispatchDeleted ==
    /\ ~exited
    /\ \E i \in 1..Len(cleanup), ok \in BOOLEAN :
          /\ cleanup[i].pc = "deleting"
          /\ cleanup' = [cleanup EXCEPT
                            ![i].left = @ - 1,
                            ![i].deletedCount = IF ok THEN @ + 1 ELSE @,
                            ![i].pc = IF cleanup[i].left = 1 THEN "finished" ELSE "deleting"]
    /\ UNCHANGED <<retryVars, history, remoteVars, toolVars, invocations,
                   greetings, greetingPlayedRooms, isShuttingDown, signals, exited>>

\* the handler resumes after cleanupOnExit: process.exit(0)
ProcessExit ==
    /\ ~exited
    /\ \E i \in 1..Len(cleanup) :
          /\ cleanup[i].pc = "finished"
          /\ cleanup' = [cleanup EXCEPT ![i].pc = "returned"]
    /\ exited' = TRUE
    /\ UNCHANGED <<retryVars, history, remoteVars, toolVars, invocations,
                   greetings, greetingPlayedRooms, isShuttingDown, signals>>

InitShutdown ==
    /\ InitExecutor
    /\ InitAgent
    /\ InitTool
    /\ tasks = <<>>
    /\ room = "present"

NextShutdown ==
    \/ SIGINT
    \/ SIGTERM
    \/ CleanupImported
    \/ DispatchesListed
    \/ DispatchDeleted
    \/ ProcessExit

SpecShutdown == InitShutdown /\ [][NextShutdown]_vars

(***************************************************************************)
(* Claims about the executor                                               *)
(***************************************************************************)

\* the error (or value) attempt i of the running withRetry ended with
AttemptResult(i) == withTimeout(history[i], opts.timeoutMs)

RetryableFailure(i) ==
    /\ AttemptResult(i).kind = "reject"
    /\ shouldRetry(opts, AttemptResult(i).message)

\* C1: if the operation fails k <= maxRetries times with retryable errors,
\* withRetry has not given up (it sleeps after the k-th failure, k sleeps
\* done, or awaits invocation k+1); if the operation then succeeds, withRetry
\* returns that value after exactly k+1 invocations and exactly k sleeps.
C1_RetryableThenSuccess ==
    LET n == Len(history) IN
    /\ (/\ n <= opts.maxRetries
        /\ rpc # "idle"
        /\ \A i \in 1..n : RetryableFailure(i))
       => /\ Len(sleeps) = n
          /\ \/ rpc = "sleeping" /\ calls = n
             \/ rpc = "awaiting" /\ calls = n + 1
    /\ (/\ n >= 1
        /\ n - 1 <= opts.maxRetries
        /\ history[n].kind = "resolve"
        /\ \A i \in 1..(n - 1) : RetryableFailure(i))
       => /\ rpc = "returned"
          /\ settled = <<history[n]>>
          /\ calls = n
          /\ Len(sleeps) = n - 1

\* two retryable failures, then success, under the default options
C1_Witness ==
    /\ opts = DEFAULT_RETRY_OPTIONS
    /\ rpc = "returned"
    /\ Len(history) = 3
    /\ RetryableFailure(1) /\ RetryableFailure(2)
    /\ settled = <<[kind |-> "resolve", value |-> "value"]>>
    /\ calls = 3
    /\ Len(sleeps) = 2

\* C2: an attempt that fails with an error the predicate classifies as
\* non-retryable is the last attempt: withRetry has thrown that same error,
\* no sleep was started after it and fn was not invoked again.
C2_NonRetryableImmediate ==
    \A i \in 1..Len(history) :
        (/\ AttemptResult(i).kind = "reject"
         /\ ~shouldRetry(opts, AttemptResult(i).message))
        => /\ i = Len(history)
           /\ rpc = "thrown"
           /\ settled = <<[kind |-> "reject", message |-> AttemptResult(i).message]>>
           /\ calls = i
           /\ Len(sleeps) = i - 1

\* a "status 404" failure on the first attempt, with both retries left
C2_Witness ==
    /\ opts.maxRetries = 2
    /\ attempt = 0
    /\ history = <<[kind |-> "reject", message |-> "API request failed with status 404"]>>
    /\ rpc = "thrown"
    /\ settled = <<[kind |-> "reject", message |-> "API request failed with status 404"]>>
    /\ calls = 1
    /\ sleeps = <<>>

\* C3: fn is invoked at most maxRetries+1 times; when withRetry has thrown,
\* no sleep followed the last attempt and the error thrown is the error of
\* the last attempt made.
C3_BoundedAttemptsLastError ==
    /\ calls <= opts.maxRetries + 1
    /\ Len(sleeps) <= calls
    /\ rpc = "thrown" =>
          /\ Len(history) = calls
          /\ Len(sleeps) = calls - 1
          /\ AttemptResult(calls).kind = "reject"
          /\ settled = <<[kind |-> "reject", message |-> AttemptResult(calls).message]>>
          /\ lastError = <<AttemptResult(calls).message>>

\* retries exhausted: three different failures, the third one is thrown
C3_Witness ==
    /\ opts.maxRetries = 2
    /\ rpc = "thrown"
    /\ calls = 3
    /\ Len(sleeps) = 2
    /\ AttemptResult(1).message = "fetch failed"
    /\ AttemptResult(2).message = "fetch failed"
    /\ AttemptResult(3).message = "API request failed with status 503"
    /\ settled = <<[kind |-> "reject", message |-> "API request failed with status 503"]>>

\* the options fetchWithErrorHandling passes, merged with the defaults
CallSiteOptions ==
    MergeOptions(DEFAULT_RETRY_OPTIONS,
                 [maxRetries |-> 2, initialDelayMs |-> 500, timeoutMs |-> 8000])

C5_TimeoutIsRetried ==
    LET n == Len(history) IN
    (/\ n >= 1
     /\ opts.shouldRetry = "default"
     /\ history[n].kind = "pending"
     /\ n - 1 < opts.maxRetries)
    => rpc # "thrown"

(***************************************************************************)
(* Claims about the tools and the resolver                                 *)
(***************************************************************************)

PositionalForms(n) ==
    {NumToString(n)} \cup { NumToString(n) \o suffix : suffix \in OrdinalSuffixes }

\* C7: for a fetched list of length L and every n in 1..L, the plain integer
\* n and every ordinal n+suffix resolve to the id of the n-th task of the
\* list, in the order the API returned it; so the two forms agree.
C7_PositionalFormsAgree ==
    resolution # <<>> =>
        LET fetched == resolution[1].snapshot IN
        \A n \in 1..Len(fetched) :
            /\ \A form \in PositionalForms(n) :
                  resolveTaskIdentifier(form, fetched) = [ok |-> TRUE, id |-> fetched[n].id]
            /\ call[1].identifier \in PositionalForms(n)
                  => resolution[1].outcome = [ok |-> TRUE, id |-> fetched[n].id]

\* delete_task("2nd") against three tasks goes on to DELETE the second one
C7_Witness ==
    /\ resolution # <<>>
    /\ call[1] = [tool |-> "delete_task", identifier |-> "2nd"]
    /\ Len(resolution[1].snapshot) = 3
    /\ resolution[1].outcome = [ok |-> TRUE, id |-> resolution[1].snapshot[2].id]
    /\ tpc = "mutating"
    /\ request.method = "DELETE"
    /\ request.target = <<resolution[1].snapshot[2].id>>

\* C8: for a positional identifier n with n = 0 or n > L, L the length of
\* the fetched list, resolution fails with an error whose message states L;
\* no id is returned, the tool ends with that message and no PATCH or DELETE
\* request is made.
C8_OutOfRange ==
    resolution # <<>> =>
        LET fetched == resolution[1].snapshot
            L == Len(fetched)
            outcome == resolution[1].outcome
        IN \A n \in {0} \cup ((L + 1)..(MaxTasks + 1)) :
              call[1].identifier \in PositionalForms(n) =>
                 /\ ~outcome.ok
                 /\ "id" \notin DOMAIN outcome
                 /\ includes(outcome.message, "doesn't exist")
                 /\ includes(outcome.message,
                             "You have " \o NumToString(L) \o " task" \o Plural(L) \o ".")
                 /\ tpc = "done"
                 /\ result = <<Returned(outcome.message)>>
                 /\ \A i \in 1..Len(requests) : requests[i].method = "GET"

\* update_task("3rd", ...) against two tasks
C8_Witness ==
    /\ resolution # <<>>
    /\ call[1].tool = "update_task"
    /\ call[1].identifier = "3rd"
    /\ Len(resolution[1].snapshot) = 2
    /\ result = <<Returned("Task number 3 doesn't exist. You have 2 tasks.")>>
    /\ Len(requests) = 1

\* the identifier is neither a plain integer nor contains an ordinal
IsTitleForm(identifier) ==
    /\ ~(Len(identifier) >= 1
         /\ \A i \in 1..Len(identifier) : IsDigit(SubSeq(identifier, i, i)))
    /\ ~\E i \in 1..Len(identifier), j \in 1..Len(identifier) :
           /\ i < j
           /\ j + 1 <= Len(identifier)
           /\ IsDigit(SubSeq(identifier, i, i))
           /\ toLowerCase(SubSeq(identifier, j, j + 1)) \in OrdinalSuffixes
           /\ \A k \in i..(j - 1) : IsDigit(SubSeq(identifier, k, k))

\* the positions of the fetched tasks whose lower-cased title contains the
\* lower-cased identifier
M(identifier, fetched) ==
    { i \in 1..Len(fetched) :
        \E a \in 1..(Len(fetched[i].title) + 1), b \in 0..Len(fetched[i].title) :
            toLowerCase(SubSeq(fetched[i].title, a, b)) = toLowerCase(identifier) }

\* C9: for an identifier in title form, with M the fetched tasks whose
\* lower-cased title contains the lower-cased identifier: |M| = 0 fails with
\* a not-found error naming the identifier, |M| = 1 returns the id of that
\* task, |M| > 1 fails with an ambiguity error that lists the title of every
\* task of M and returns no id.
C9_TitleForm ==
    (resolution # <<>> /\ IsTitleForm(call[1].identifier)) =>
        LET identifier == call[1].identifier
            fetched == resolution[1].snapshot
            outcome == resolution[1].outcome
            m == M(identifier, fetched)
        IN /\ m = {} =>
                 /\ ~outcome.ok
                 /\ "id" \notin DOMAIN outcome
                 /\ includes(outcome.message,
                             "No task found matching \"" \o identifier \o "\"")
                 /\ result = <<Returned(outcome.message)>>
           /\ Cardinality(m) = 1 =>
                 \A i \in m : outcome = [ok |-> TRUE, id |-> fetched[i].id]
           /\ Cardinality(m) > 1 =>
                 /\ ~outcome.ok
                 /\ "id" \notin DOMAIN outcome
                 /\ includes(outcome.message, "Multiple tasks match")
                 /\ \A i \in m : includes(outcome.message, fetched[i].title)
                 /\ Len(outcome.listed) = Cardinality(m)
                 /\ result = <<Returned(outcome.message)>>

\* "MILK" against a list in which "Buy milk" and "buy eggs" both occur: the
\* one task that matches is found whatever its case
C9_Witness ==
    /\ resolution # <<>>
    /\ call[1].identifier = "MILK"
    /\ Len(resolution[1].snapshot) = 3
    /\ Cardinality(M("MILK", resolution[1].snapshot)) = 1
    /\ resolution[1].outcome.ok
    /\ \E i \in 1..3 :
          /\ resolution[1].snapshot[i].title = "Buy milk"
          /\ resolution[1].outcome.id = resolution[1].snapshot[i].id

\* C10: in the ambiguity error the number listed with each matching title is
\* that task's 1-based position in the task list: resolving the listed
\* number as a plain integer against the same list returns the id of exactly
\* the task listed with it.
C10_ListedNumbersResolve ==
    (resolution # <<>> /\ ~resolution[1].outcome.ok) =>
        LET fetched == resolution[1].snapshot
            listed == resolution[1].outcome.listed
            positions == SortedSeq(M(call[1].identifier, fetched))
        IN \A k \in 1..Len(listed) :
              /\ listed[k].number = positions[k]
              /\ resolveTaskIdentifier(NumToString(listed[k].number), fetched)
                    = [ok |-> TRUE, id |-> fetched[positions[k]].id]

\* the fetched list with every title replaced by t
Retitled(fetched, t) == [i \in 1..Len(fetched) |-> [fetched[i] EXCEPT !.title = t]]

\* C11: an identifier that is a plain integer or contains an ordinal is
\* resolved by position, before any title is looked at: the outcome is the
\* id at some position of the fetched list or the "doesn't exist" error,
\* never an ambiguity or "no task found" error, and it is the same whatever
\* the titles are (also when every title is the identifier itself).
C11_PositionalBeforeTitles ==
    (resolution # <<>> /\ ~IsTitleForm(call[1].identifier)) =>
        LET identifier == call[1].identifier
            fetched == resolution[1].snapshot
            outcome == resolution[1].outcome
        IN /\ outcome.ok => \E n \in 1..Len(fetched) :
                               /\ outcome.id = fetched[n].id
                               /\ \A form \in PositionalForms(n) :
                                     resolveTaskIdentifier(form, fetched) = outcome
           /\ ~outcome.ok => /\ outcome.listed = <<>>
                             /\ includes(outcome.message, "doesn't exist")
           /\ \A t \in {identifier, "", "Buy milk"} :
                 resolveTaskIdentifier(identifier, Retitled(fetched, t)) = outcome

\* "2" against a list whose first task is titled "2": the second task is
\* the one resolved
C11_Witness ==
    /\ resolution # <<>>
    /\ call[1].identifier = "2"
    /\ Len(resolution[1].snapshot) = 3
    /\ resolution[1].snapshot[1].title = "2"
    /\ resolution[1].outcome = [ok |-> TRUE, id |-> resolution[1].snapshot[2].id]

\* C12: every update_task/delete_task invocation sends its own GET of the
\* listing before anything else, resolves against the list that this GET
\* returned and sends its PATCH or DELETE to the id found in that list:
\* nothing fetched by an earlier invocation is used.
C12_FreshSnapshot ==
    /\ (tpc \in {"resolving", "mutating"}
           /\ call[1].tool \in {"update_task", "delete_task"}) =>
          /\ Len(requests) >= 1
          /\ requests[1] = GetRequest({})
    /\ resolution # <<>> =>
          LET served == invocations[Len(invocations)] IN
          /\ requests[1] = GetRequest({})
          /\ served # <<>>
          /\ resolution[1].snapshot = served[1]
          /\ resolution[1].outcome = resolveTaskIdentifier(call[1].identifier, served[1])
          /\ tpc = "mutating" =>
                /\ resolution[1].outcome.ok
                /\ request.target = <<resolution[1].outcome.id>>
                /\ \E i \in 1..Len(served[1]) : served[1][i].id = request.target[1]

\* the second invocation is given another list than the first and resolves
\* "1" to the first task of that list, which the first list had elsewhere
C12_Witness ==
    /\ Len(invocations) = 2
    /\ invocations[1] # <<>>
    /\ invocations[2] # <<>>
    /\ Len(invocations[2][1]) >= 1
    /\ invocations[1][1] # invocations[2][1]
    /\ call[1].identifier = "1"
    /\ tpc = "mutating"
    /\ resolution # <<>>
    /\ request.target = <<invocations[2][1][1].id>>
    /\ invocations[1][1][1].id # invocations[2][1][1].id

DateAnswers(arg) ==
    { parseNaturalDate(arg.v, now, tz) : now \in Nows, tz \in TzOffsets }

\* the date parser rejects the argument whenever it is asked
DateRejected(arg) ==
    /\ ~IsNullish(arg)
    /\ \A a \in DateAnswers(arg) : ~a.ok

\* a priority was supplied and parsePriority maps it to null
PriorityRejected(arg) == ~IsNullish(arg) /\ parsePriority(arg) = Null

\* the strings the parsers give for the arguments of the call
ParseErrors(c) ==
    (IF c.tool \in {"create_task", "update_task"} /\ ~IsNullish(c.args.scheduled_time)
     THEN { Returned(a.message) : a \in { b \in DateAnswers(c.args.scheduled_time) : ~b.ok } }
     ELSE {})
    \cup (IF PriorityRejected(c.args.priority)
          THEN {Returned(InvalidPriorityMessage(c.args.priority))}
          ELSE {})

\* no POST or PATCH has been sent; get_tasks has sent nothing
NothingSent(c) ==
    /\ \A i \in 1..Len(requests) : requests[i].method \notin {"POST", "PATCH"}
    /\ c.tool = "get_tasks" => requests = <<>>

SuccessVocabulary(tool) ==
    IF tool = "create_task" THEN {"Task created"}
    ELSE IF tool = "delete_task" THEN {"Deleted"}
    ELSE IF tool = "update_task" THEN {"Updated", "Marked complete", "Marked incomplete"}
    ELSE {"No tasks", "No tasks found"}
         \cup { "Found " \o NumToString(n) \o (IF n = 1 THEN " task" ELSE " tasks") :
                  n \in 1..MaxTasks + 1 }

\* the tasks carried by the body of a response
TasksOf(tool, body) ==
    IF tool = "get_tasks" THEN { body[i] : i \in 1..Len(body) } ELSE {body}

C16_TitleValidated ==
    call # <<>> =>
       LET c == call[1] IN
       /\ (c.tool = "create_task" /\ (c.args.title = "" \/ Len(c.args.title) > 500))
             => \A i \in 1..Len(requests) : requests[i].method # "POST"
       /\ (/\ c.tool = "update_task"
           /\ ~IsNullish(c.args.title)
           /\ (c.args.title.v = "" \/ Len(c.args.title.v) > 500))
             => \A i \in 1..Len(requests) : requests[i].method # "PATCH"

\* C17: a tool whose request did not settle within timeoutMs, so that
\* withTimeout rejected, returns the timeout sentence of formatErrorForTTS,
\* "The request to <operation> timed out. Please try again."
C17_TimeoutReported ==
    [][ (/\ tpc \in {"resolving", "mutating", "listing"}
         /\ rpc = "thrown"
         /\ settled[1].message = TimeoutMessage(FetchRetryOptions.timeoutMs)
         /\ tpc' = "done")
        => result' = <<Returned("The request to " \o OperationLabel(call[1].tool)
                                \o " timed out. Please try again.")>>
      ]_vars

ServerErrorSentence(operation) ==
    "The server encountered an error while trying to " \o operation
    \o ". Please try again in a moment."

\* the status carried by a message of fetchWithErrorHandling, 0 for any
\* other message
StatusOf(message) ==
    LET prefix == "API request failed with status "
        n == Len(prefix)
    IN IF /\ Len(message) = n + 3
          /\ SubSeq(message, 1, n) = prefix
          /\ IsPlainNumber(SubSeq(message, n + 1, n + 3))
       THEN parseInt(SubSeq(message, n + 1, n + 3))
       ELSE 0

\* C18: for the error of a response with status c, message "API request
\* failed with status c": if c is in 500..599 the retry predicate accepts it,
\* the attempt is followed by a sleep and a new attempt while retries remain,
\* and the tool that ends with it says the server-error sentence; if c is in
\* 400..499 the predicate refuses it, withRetry throws at once, and the tool
\* says the not-found sentence for 404, the invalid-request sentence for 400
\* and never the server-error sentence; the predicate accepts the error
\* exactly when the formatter gives the server-error sentence.
C18_StatusClassification ==
    [][ /\ (rpc = "awaiting" /\ rpc' \in {"sleeping", "thrown"}
               /\ tpc \in {"resolving", "mutating", "listing"}
               /\ StatusOf(lastError'[1]) \in StatusCodes)
          => LET m == lastError'[1]
                 c == StatusOf(m)
             IN /\ c >= 500 => shouldRetry(opts, m)
                /\ (c >= 500 /\ attempt < opts.maxRetries)
                      => (rpc' = "sleeping" /\ Len(sleeps') = Len(sleeps) + 1)
                /\ c < 500 => (/\ ~shouldRetry(opts, m)
                               /\ rpc' = "thrown"
                               /\ settled' = <<[kind |-> "reject", message |-> m]>>
                               /\ sleeps' = sleeps)
        /\ (rpc = "thrown" /\ tpc' = "done"
               /\ tpc \in {"resolving", "mutating", "listing"}
               /\ StatusOf(settled[1].message) \in StatusCodes)
          => LET m == settled[1].message
                 c == StatusOf(m)
                 op == OperationLabel(call[1].tool)
                 said == result'[1].value
             IN /\ c >= 500 => (said = ServerErrorSentence(op) /\ calls = opts.maxRetries + 1)
                /\ c < 500 => said # ServerErrorSentence(op)
                /\ c = 404 => said = "I couldn't find that task. Please try a different description."
                /\ c = 400 => said = "The request to " \o op
                                     \o " was invalid. Please try rephrasing your command."
                /\ shouldRetry(opts, m) <=> (said = ServerErrorSentence(op))
      ]_vars

\* a 5xx was answered three times, after sleeps of 500 and 1000 ms, and
\* get_tasks has said the server-error sentence
C18_Witness ==
    /\ tpc = "done"
    /\ call[1].tool = "get_tasks"
    /\ Len(requests) = 3
    /\ result = <<Returned(ServerErrorSentence("retrieve your tasks"))>>

\* C19: parseNaturalDate fails or returns an instant that is not earlier
\* than the reference instant, and the string it returns denotes that
\* instant; "today" fails with the past-date error when the reference is
\* after 12:00 UTC, "tonight" when it is after 20:00 UTC, and so does every
\* phrase of another branch whose date at noon UTC is before the reference.
C19_NeverInThePast ==
    (tpc = "done" /\ call[1].tool = "parseNaturalDate") =>
       LET c == call[1]
           R == c.referenceDate
           r == result[1]
           phrase == trim(toLowerCase(c.input))
           past == [ok |-> FALSE, message |-> PastDateMessage]
       IN /\ r.ok => /\ ~DateBefore(r.date, R)
                     /\ NewDateFromISO(r.value, 0) = r.date
          /\ (phrase = "today" /\ R.ms > 12 * MsPerHour) => r = past
          /\ (phrase = "today" /\ R.ms <= 12 * MsPerHour)
                => (r.ok /\ r.date = [day |-> R.day, ms |-> 12 * MsPerHour])
          /\ (phrase = "tonight" /\ R.ms > 20 * MsPerHour) => r = past
          /\ (phrase = "tonight" /\ R.ms <= 20 * MsPerHour)
                => (r.ok /\ r.date = [day |-> R.day, ms |-> 20 * MsPerHour])
          /\ (phrase = "in 0 days" /\ R.ms > 12 * MsPerHour) => r = past
          /\ (phrase = "tomorrow")
                => (r.ok /\ r.date = [day |-> R.day + 1, ms |-> 12 * MsPerHour])

\* "today" was asked at 12:00:00.001 UTC and refused as past
C19_Witness ==
    /\ tpc = "done"
    /\ call[1].tool = "parseNaturalDate"
    /\ call[1].input = "today"
    /\ call[1].referenceDate = [day |-> 19737, ms |-> 12 * MsPerHour + 1]
    /\ result = <<[ok |-> FALSE, message |-> PastDateMessage]>>

\* what the ISO strings above denote: the calendar date, the time of day
\* in milliseconds, and the offset from UTC in minutes (<<>>: local time)
ISODenotations ==
    { [input |-> "2024-01-15", y |-> 2024, m |-> 1, d |-> 15, ms |-> 0, zone |-> <<0>>],
      [input |-> "2024-01-16", y |-> 2024, m |-> 1, d |-> 16, ms |-> 0, zone |-> <<0>>],
      [input |-> "2024-02-01", y |-> 2024, m |-> 2, d |-> 1, ms |-> 0, zone |-> <<0>>],
      [input |-> "2024-01-15T10:00:00Z", y |-> 2024, m |-> 1, d |-> 15,
       ms |-> 10 * MsPerHour, zone |-> <<0>>],
      [input |-> "2024-01-15T09:59:59.999Z", y |-> 2024, m |-> 1, d |-> 15,
       ms |-> 10 * MsPerHour - 1, zone |-> <<0>>],
      [input |-> "2024-01-15T12:30:45.123Z", y |-> 2024, m |-> 1, d |-> 15,
       ms |-> 12 * MsPerHour + 30 * MsPerMinute + 45 * MsPerSecond + 123, zone |-> <<0>>],
      [input |-> "2024-01-15T23:00:00", y |-> 2024, m |-> 1, d |-> 15,
       ms |-> 23 * MsPerHour, zone |-> <<>>],
      [input |-> "2024-01-15T21:30:00.000", y |-> 2024, m |-> 1, d |-> 15,
       ms |-> 21 * MsPerHour + 30 * MsPerMinute, zone |-> <<>>],
      [input |-> "2024-01-31T12:00:00Z", y |-> 2024, m |-> 1, d |-> 31,
       ms |-> 12 * MsPerHour, zone |-> <<0>>],
      [input |-> "2024-01-15T23:59:59.999Z", y |-> 2024, m |-> 1, d |-> 15,
       ms |-> MsPerDay - 1, zone |-> <<0>>],
      [input |-> "2030-06-01T10:00:00+02:00", y |-> 2030, m |-> 6, d |-> 1,
       ms |-> 10 * MsPerHour, zone |-> <<120>>],
      [input |-> "2024-01-15T08:00:00-05:00", y |-> 2024, m |-> 1, d |-> 15,
       ms |-> 8 * MsPerHour, zone |-> <<-300>>],
      [input |-> "2030-06-01T10:00", y |-> 2030, m |-> 6, d |-> 1,
       ms |-> 10 * MsPerHour, zone |-> <<>>] }

\* the instant a denotation stands for on a host whose offset is tz
InstantOf(e, tz) ==
    LET off == IF e.zone = <<>> THEN tz ELSE e.zone[1]
        total == e.ms - off * MsPerMinute + MsPerDay
    IN [day |-> MakeDay(e.y, e.m, e.d) + (total \div MsPerDay) - 1,
        ms |-> total % MsPerDay]

\* what pass-through gives for the instant I and the reference R
PassedThrough(I, R) ==
    IF DateBefore(I, R) THEN [ok |-> FALSE, message |-> PastDateMessage]
    ELSE [ok |-> TRUE, value |-> toISOString(I), date |-> I]

DayOfWeek(day) == (day + 4) % 7

\* parseNaturalDate has been applied
Parsed == tpc = "done" /\ call[1].tool = "parseNaturalDate"

\* C21: a weekday name W, alone or after "this ", gives 12:00 UTC on the
\* first date strictly after the reference's UTC date whose weekday is W:
\* 1 to 7 days ahead, 7 when the reference's own weekday is W, and later
\* than the reference.
C21_BareWeekday ==
    Parsed =>
       \A i \in 1..7 :
          call[1].input \in {Weekdays[i], "this " \o Weekdays[i]} =>
             LET R == call[1].referenceDate
                 r == result[1]
             IN /\ r.ok
                /\ r.date.ms = 12 * MsPerHour
                /\ r.date.day - R.day \in 1..7
                /\ DayOfWeek(r.date.day) = i - 1
                /\ DayOfWeek(R.day) = i - 1 => r.date.day = R.day + 7
                /\ DateBefore(R, r.date)
                /\ r.value = toISOString(r.date)

\* "monday" was asked on Monday 2024-01-15 at 21:30 UTC and gave Monday
\* 2024-01-22 at noon UTC
C21_Witness ==
    /\ Parsed
    /\ call[1].input = "monday"
    /\ call[1].referenceDate = [day |-> 19737, ms |-> 21 * MsPerHour + 30 * MsPerMinute]
    /\ result = <<[ok |-> TRUE, value |-> "2024-01-22T12:00:00.000Z",
                   date |-> [day |-> 19744, ms |-> 12 * MsPerHour]]>>

\* C22 as stated: "next W" is the result for the weekday name W alone plus
\* exactly 7 days, for every weekday W and every reference instant.
C22_NextWeekdayPlusSeven ==
    Parsed =>
       \A i \in 1..7 :
          call[1].input = "next " \o Weekdays[i] =>
             LET bare == parseNaturalDate(Weekdays[i], call[1].referenceDate, call[1].tz)
                 r == result[1]
             IN /\ r.ok
                /\ r.date = [day |-> bare.date.day + 7, ms |-> bare.date.ms]

\* C22 amended: "next W" is noon UTC of the day W of the week (Sunday to
\* Saturday) that follows the reference's week: 7 days after the result for W
\* alone when W comes later in the week than the reference's weekday, and
\* the same as the result for W alone when W is the reference's weekday or
\* comes earlier in the week.
C22_NextWeekdayOfFollowingWeek ==
    Parsed =>
       \A i \in 1..7 :
          call[1].input = "next " \o Weekdays[i] =>
             LET R == call[1].referenceDate
                 bare == parseNaturalDate(Weekdays[i], R, call[1].tz)
                 r == result[1]
             IN /\ r.ok
                /\ r.date.ms = 12 * MsPerHour
                /\ r.date.day = R.day + (i - 1) - DayOfWeek(R.day) + 7
                /\ r.date.day = IF i - 1 > DayOfWeek(R.day)
                                THEN bare.date.day + 7
                                ELSE bare.date.day

\* "next monday" was asked on Monday 2024-01-15 and gave Monday 2024-01-22,
\* the day "monday" alone gives
C22_Witness ==
    /\ Parsed
    /\ call[1].input = "next monday"
    /\ call[1].referenceDate = [day |-> 19737, ms |-> 10 * MsPerHour]
    /\ result = <<parseNaturalDate("monday", call[1].referenceDate, call[1].tz)>>
    /\ result[1].value = "2024-01-22T12:00:00.000Z"

\* C23: "tomorrow" gives the reference's UTC date plus one day at
\* 12:00:00.000 UTC whatever the reference's time of day, over month and year
\* ends too, and is never refused as past.
C23_Tomorrow ==
    (Parsed /\ call[1].input = "tomorrow") =>
       LET R == call[1].referenceDate
           r == result[1]
       IN /\ r.ok
          /\ r.date = [day |-> R.day + 1, ms |-> 12 * MsPerHour]
          /\ NewDateFromISO(r.value, 0) = r.date
          /\ R.day = 19753 => r.value = "2024-02-01T12:00:00.000Z"
          /\ R.day = 19782 => r.value = "2024-03-01T12:00:00.000Z"
          /\ R.day = 20088 => r.value = "2025-01-01T12:00:00.000Z"

\* "tomorrow" was asked on 2024-12-31 at 23:00 UTC and gave 2025-01-01 at
\* noon UTC
C23_Witness ==
    /\ Parsed
    /\ call[1].input = "tomorrow"
    /\ call[1].referenceDate = [day |-> 20088, ms |-> 23 * MsPerHour]
    /\ result[1].ok
    /\ result[1].value = "2025-01-01T12:00:00.000Z"

\* C24: "in N day" and "in N days" stand for the reference's UTC date plus
\* N days at 12:00 UTC, "in N week" and "in N weeks" for the date plus 7*N
\* days at 12:00 UTC, and "next week" for what "in 1 week" stands for; the
\* result is that instant (refused as past, like any other, when it is
\* before the reference: N = 0 after noon).
C24_RelativeDaysAndWeeks ==
    Parsed =>
       LET R == call[1].referenceDate
           r == result[1]
           at(days) == PassedThrough([day |-> R.day + days, ms |-> 12 * MsPerHour], R)
       IN /\ \A n \in RelativeAmounts :
                /\ call[1].input \in {RelativePhrase(n, "day"), RelativePhrase(n, "days")}
                      => r = at(n)
                /\ call[1].input \in {RelativePhrase(n, "week"), RelativePhrase(n, "weeks")}
                      => r = at(7 * n)
                /\ (n > 0 /\ call[1].input \in {RelativePhrase(n, u) : u \in RelativeUnits})
                      => r.ok
          /\ call[1].input = "next week"
                => (r = at(7) /\ r = parseNaturalDate("in 1 week", R, call[1].tz))

\* "in 2 weeks" was asked on Thursday 2024-02-29 at 18:00 UTC and gave
\* 2024-03-14 at noon UTC
C24_Witness ==
    /\ Parsed
    /\ call[1].input = "in 2 weeks"
    /\ call[1].referenceDate = [day |-> 19782, ms |-> 18 * MsPerHour]
    /\ result[1].ok
    /\ result[1].value = "2024-03-14T12:00:00.000Z"

\* C25: an input that is of none of the recognised forms fails, and the
\* message of the failure is the "I couldn't understand the date" sentence
\* with the input between quotes, letter for letter; no date is returned
\* for it.
C25_UnrecognizedPhrases ==
    (Parsed /\ call[1].input \in NoFormPhrases) =>
       LET r == result[1] IN
       /\ ~r.ok
       /\ r.message = "I couldn't understand the date \"" \o call[1].input
                      \o "\". Try phrases like \"tomorrow\", \"next Monday\", "
                      \o "\"in 3 days\", or a specific date."
       /\ includes(r.message, "\"" \o call[1].input \o "\"")

\* "Someday soon" was refused with a message that repeats it
C25_Witness ==
    /\ Parsed
    /\ call[1].input = "Someday soon"
    /\ ~result[1].ok
    /\ includes(result[1].message, "date \"Someday soon\". Try")

\* C26 as stated: an input that differs from a recognised input, a phrase
\* or an ISO 8601 string, only in letter case or in white space around it
\* gives the same result as that input.
C26_Normalisation ==
    Parsed =>
       \A v \in SpellingVariants :
          call[1].input = v.variant =>
             result[1] = parseNaturalDate(v.of, call[1].referenceDate, call[1].tz)

\* C26 amended: the phrases are matched on the lower-cased and trimmed
\* input, so a variant of a phrase gives the same result as the phrase; the
\* ISO 8601 form is matched on the input as given, so an ISO string with
\* white space around it or with a lower-case t or z is refused as not
\* understood.
C26_NormalisationOfPhrases ==
    Parsed =>
       \A v \in SpellingVariants :
          call[1].input = v.variant =>
             IF v.iso
             THEN /\ parseNaturalDate(v.of, [day |-> 0, ms |-> 0], call[1].tz).ok
                  /\ result[1] = [ok |-> FALSE, message |->
                        "I couldn't understand the date \"" \o v.variant
                        \o "\". Try phrases like \"tomorrow\", \"next Monday\", "
                        \o "\"in 3 days\", or a specific date."]
             ELSE result[1] = parseNaturalDate(v.of, call[1].referenceDate, call[1].tz)

\* "  TONIGHT " was asked on 2024-01-15 at 10:00 UTC and gave 20:00 UTC of
\* that day, as "tonight" does
C26_Witness ==
    /\ Parsed
    /\ call[1].input = "  TONIGHT "
    /\ call[1].referenceDate = [day |-> 19737, ms |-> 10 * MsPerHour]
    /\ result[1].ok
    /\ result[1].value = "2024-01-15T20:00:00.000Z"
    /\ result[1] = parseNaturalDate("tonight", call[1].referenceDate, call[1].tz)

(***************************************************************************)
(* Claims about the priority mapper                                        *)
(***************************************************************************)

\* fn has been called on its own, and has returned
Applied(fn) == tpc = "done" /\ Len(call) = 1 /\ call[1].tool = fn

\* what parsePriority makes of the integer n, given as a number or in digits
OfInteger(n) == IF n \in 1..5 THEN Num(n) ELSE Null

\* the numbers and the numeric strings of PriorityInputs, in and out of the
\* range, and the absent ones, give what the range rule says
RangeRule ==
    /\ \A n \in -1..MaxPriorityNumber :
          /\ call[1].input = Num(n) => result[1] = OfInteger(n)
          /\ (n >= 0 /\ call[1].input = Str(NumToString(n))) => result[1] = OfInteger(n)
    /\ call[1].input \in {Str("10"), Str("-3"), NaN} => result[1] = Null
    /\ IsNullish(call[1].input) => result[1] = Null

MatchedValues(str) ==
    { PRIORITY_MAPPINGS[k].value : k \in { j \in 1..Len(PRIORITY_MAPPINGS) :
          \E w \in PRIORITY_MAPPINGS[j].keywords : includes(trim(toLowerCase(str)), w) } }

\* the string does not begin, once trimmed, with an integer
NonNumeric(str) == jsParseInt(trim(toLowerCase(str))) = <<>>

\* C28: given a string that is not numeric, parsePriority returns the lowest
\* of the values of the keyword sets of which the string contains a keyword
\* ("medium-high" gives 2, "high or low" and "low, then high" give 1), and
\* null when the string contains no keyword.
C28_KeywordPrecedence ==
    (Applied("parsePriority") /\ call[1].input.t = "string"
                              /\ NonNumeric(call[1].input.v)) =>
        LET str == call[1].input.v
            matched == MatchedValues(str)
        IN /\ matched = {} => result[1] = Null
           /\ matched # {} =>
                 /\ result[1].t = "number"
                 /\ result[1].v \in matched
                 /\ \A v \in matched : result[1].v <= v
           /\ str = "medium-high" => result[1] = Num(2)
           /\ str \in {"high or low", "low, then high"} => result[1] = Num(1)
           /\ str = "critical but optional" => result[1] = Num(1)
           /\ str = "urgent and blocking" => result[1] = Num(4)
           /\ str \in {"bogus", "asap", ""} => result[1] = Null

\* parsePriority has been given "low, then high", which has a keyword of the
\* first set and one of the third, and has returned 1
C28_Witness ==
    /\ Applied("parsePriority")
    /\ call[1].input = Str("low, then high")
    /\ MatchedValues("low, then high") = {1, 3}
    /\ result[1] = Num(1)

\* the labels of the five keyword sets, in the order of their values
CanonicalLabels == <<"Low", "Normal", "High", "Urgent", "Critical">>

\* the keyword set of which k is a keyword
SetOf(k) == CHOOSE j \in 1..Len(PRIORITY_MAPPINGS) : k \in PRIORITY_MAPPINGS[j].keywords

\* C29: formatPriority of what parsePriority makes of a keyword is the label
\* of the keyword's own set, which is Low, Normal, High, Urgent or Critical;
\* parsePriority of the lower-cased formatPriority(v) is v for v in 1..5;
\* formatPriority of another integer v is "Priority " followed by v, and of
\* null or an absent value it is the empty string.
C29_RoundTrip ==
    /\ (tpc = "done" /\ Len(call) = 2 /\ call[1].tool = "parsePriority") =>
          \A k \in PriorityKeywords :
             call[1].input = Str(k) =>
                /\ result[1] = CanonicalLabels[SetOf(k)]
                /\ result[1] = PRIORITY_MAPPINGS[SetOf(k)].label
                /\ PRIORITY_MAPPINGS[SetOf(k)].value = SetOf(k)
    /\ (tpc = "done" /\ Len(call) = 2 /\ call[1].tool = "formatPriority") =>
          \A v \in 1..5 :
             call[1].input = Num(v) =>
                /\ call[2].input = Str(toLowerCase(CanonicalLabels[v]))
                /\ result[1] = Num(v)
    /\ Applied("formatPriority") =>
          /\ \A v \in (-1..MaxPriorityNumber) \ (1..5) :
                call[1].input = Num(v) =>
                   /\ result[1] = "Priority " \o NumberToString(Num(v))
                   /\ v = 0 => result[1] = "Priority 0"
                   /\ v = 7 => result[1] = "Priority 7"
                   /\ v = -1 => result[1] = "Priority -1"
          /\ call[1].input = Num(99) => result[1] = "Priority 99"
          /\ IsNullish(call[1].input) => result[1] = ""

\* "time-sensitive", a keyword of the fourth set, has been parsed and the
\* result formatted: Urgent
C29_Witness ==
    /\ tpc = "done"
    /\ Len(call) = 2
    /\ call[1] = [tool |-> "parsePriority", input |-> Str("time-sensitive")]
    /\ call[2] = [tool |-> "formatPriority", input |-> Num(4)]
    /\ result[1] = "Urgent"

(***************************************************************************)
(* Claims about the window between the listing and the mutation            *)
(***************************************************************************)

\* the position the invocation's identifier names
PositionNamed == (CHOOSE p \in Positions : p[1] = call[1].identifier)[2]

\* update_task or delete_task, given a positional identifier, has its PATCH
\* or DELETE under way
MutationUnderWay ==
    /\ tpc = "mutating"
    /\ rpc = "awaiting"
    /\ call[1].tool \in {"update_task", "delete_task"}
    /\ call[1].identifier \in RaceIdentifiers

\* C30: while the PATCH or DELETE of update_task or delete_task for position n
\* is under way, its target is the task that was at position n of the list
\* the resolver fetched, whatever the collection has become since (nothing
\* is fetched or compared again); so when the collection is still the one
\* fetched, the target is the task at position n of the collection.
C30_StaleRead ==
    MutationUnderWay =>
        LET n == PositionNamed
            fetched == invocations[Len(invocations)][1]
        IN /\ request.method \in {"PATCH", "DELETE"}
           /\ n \in 1..Len(fetched)
           /\ request.target = <<fetched[n].id>>
           /\ Len(requests) = 2
           /\ requests[1].method = "GET"
           /\ tasks = fetched => request.target = <<tasks[n].id>>

\* update_task has marked complete the task that was first when it was
\* listed; by the time of the PATCH another task had become the first, and
\* that one is still not complete
C30_Witness ==
    /\ tpc = "done"
    /\ call[1].tool = "update_task"
    /\ call[1].identifier = "1"
    /\ result[1] = Returned("Marked complete")
    /\ Len(tasks) >= 2
    /\ ~tasks[1].completed
    /\ tasks[1].id # requests[2].target[1]
    /\ \E k \in 2..Len(tasks) : tasks[k].id = requests[2].target[1] /\ tasks[k].completed

\* the number of months the phrase adds: <<>> if it is no month phrase
MonthsOf(phrase) ==
    IF phrase = "next month" THEN <<1>>
    ELSE IF \E n \in RelativeAmounts \cup {13} :
               phrase \in {RelativePhrase(n, "month"), RelativePhrase(n, "months")}
    THEN <<CHOOSE n \in RelativeAmounts \cup {13} :
               phrase \in {RelativePhrase(n, "month"), RelativePhrase(n, "months")}>>
    ELSE <<>>

\* y-m-d at noon UTC, as toISOString prints it
NoonOf(y, m, d) == Pad(y, 4) \o "-" \o Pad(m, 2) \o "-" \o Pad(d, 2) \o "T12:00:00.000Z"

\* a month phrase has been parsed and a date returned
MonthParsed == Parsed /\ MonthsOf(call[1].input) # <<>> /\ result[1].ok

\* C33 as stated: "next month" and "in N month(s)" give 12:00 UTC of the day
\* whose month is the reference's month plus N, carried into the following
\* years, and whose day of the month is the reference's, also when that is
\* 29, 30 or 31 and the target month is shorter.
C33_MonthIncrement ==
    MonthParsed =>
       LET R == call[1].referenceDate
           n == MonthsOf(call[1].input)[1]
           months == MonthOfDay(R.day) - 1 + n
       IN result[1].value = NoonOf(YearOfDay(R.day) + (months \div 12), (months % 12) + 1,
                                   DateOfDay(R.day))

\* C33: "next month" and "in N month(s)" give 12:00 UTC of the day whose
\* month is the reference's month plus N, carried into the following years,
\* and whose day of the month is the reference's, when the target month has
\* that day; when it has not, the days beyond the target month's end are
\* counted into the month after it (31 January plus one month is 2 March in
\* a leap year).  Only N = 0 after noon is refused as past.
C33_MonthIncrementCarried ==
    (Parsed /\ MonthsOf(call[1].input) # <<>>) =>
       LET R == call[1].referenceDate
           n == MonthsOf(call[1].input)[1]
           months == MonthOfDay(R.day) - 1 + n
           y == YearOfDay(R.day) + (months \div 12)
           m == (months % 12) + 1
           d == DateOfDay(R.day)
           last == DaysInMonth(y, m)
       IN /\ result[1].ok <=> (n > 0 \/ R.ms <= 12 * MsPerHour)
          /\ (result[1].ok /\ d <= last) => result[1].value = NoonOf(y, m, d)
          /\ (result[1].ok /\ d > last) =>
                result[1].value = NoonOf(IF m = 12 THEN y + 1 ELSE y,
                                         IF m = 12 THEN 1 ELSE m + 1, d - last)

\* "next month" was asked on 2024-01-31 and gave 2 March, February having
\* 29 days
C33_Witness ==
    /\ Parsed
    /\ call[1].input = "next month"
    /\ call[1].referenceDate = [day |-> 19753, ms |-> 9 * MsPerHour]
    /\ result[1].ok
    /\ result[1].value = "2024-03-02T12:00:00.000Z"

(***************************************************************************)
(* Claims about the tools' requests and results                            *)
(***************************************************************************)

\* update_task's PATCH was answered with a 2xx and a readable body, and the
\* tool now ends
UpdateSucceeds ==
    /\ tpc = "mutating"
    /\ rpc = "returned"
    /\ call[1].tool = "update_task"
    /\ settled[1].value.json # <<>>
    /\ tpc' = "done"

\* C31: an update_task that succeeds returns "Marked complete" or "Marked
\* incomplete" exactly when completed was given as true or false, and returns
\* "Updated" when completed is absent or null.
C31_UpdateConfirmation ==
    [][ UpdateSucceeds =>
          LET completed == call[1].args.completed IN
          /\ result'[1] \in {Returned("Marked complete"), Returned("Marked incomplete")}
                <=> completed \in {Bool(TRUE), Bool(FALSE)}
          /\ IsNullish(completed) => result'[1] = Returned("Updated")
      ]_vars

\* the priority_index create_task is to send for a priority it accepts,
\* for the priorities of CreateArgs
ExpectedIndex(priority) ==
    IF IsNullish(priority) THEN Num(1)
    ELSE IF priority = Str("high") THEN Num(3)
    ELSE IF priority = Str("2") THEN Num(2)
    ELSE priority

IdsOf(list) == { list[k].id : k \in 1..Len(list) }

\* the tasks of a list other than the one of the given id, in their order
Others(list, id) == SelectSeq(list, LAMBDA t : t.id # id)

C36_EmptyIdentifier ==
    (/\ call # <<>>
     /\ call[1].tool \in {"update_task", "delete_task"}
     /\ call[1].identifier = "") =>
        /\ resolution # <<>> => ~resolution[1].outcome.ok
        /\ \A i \in 1..Len(requests) : requests[i].method \notin {"PATCH", "DELETE"}

NoChangesMessage == "No changes specified. Please tell me what you'd like to update."

\* update_task has been invoked with no field to change
NothingToUpdate(c) ==
    /\ c # <<>>
    /\ c[1].tool = "update_task"
    /\ IsNullish(c[1].args.title)
    /\ IsNullish(c[1].args.scheduled_time)
    /\ IsNullish(c[1].args.priority)
    /\ IsNullish(c[1].args.completed)

\* such an invocation sends listing fetches only, publishes nothing and
\* leaves the collection as it is
NothingDone ==
    /\ \A i \in 1..Len(requests') : requests'[i] = GetRequest({})
    /\ published' = published
    /\ published' = <<>>
    /\ tasks' = tasks

\* C37 as stated: update_task invoked with title, scheduled_time, priority
\* and completed all absent or null returns the "No changes specified"
\* sentence, sends no request but the listing fetch, publishes nothing and
\* leaves the collection as it is.
C37_NoChanges ==
    [][ NothingToUpdate(call') =>
          /\ NothingDone
          /\ tpc' = "done" => result' = <<Returned(NoChangesMessage)>>
      ]_vars

\* C37: update_task invoked with title, scheduled_time, priority and
\* completed all absent or null sends no request but the listing fetch,
\* publishes nothing and leaves the collection as it is; it returns the "No
\* changes specified" sentence when its identifier was resolved, and what
\* the failed listing or the failed resolution is reported with when not.
C37_NoChangesAfterResolution ==
    [][ NothingToUpdate(call') =>
          /\ NothingDone
          /\ tpc' = "done" =>
                /\ result'[1].kind = "return"
                /\ result' = <<Returned(NoChangesMessage)>>
                      <=> (resolution' # <<>> /\ resolution'[1].outcome.ok)
                /\ (resolution' # <<>> /\ ~resolution'[1].outcome.ok)
                      => result' = <<Returned(resolution'[1].outcome.message)>>
      ]_vars

\* update_task("1") with nothing to change, against a list that has a task:
\* one listing fetch, and the sentence
C37_Witness ==
    /\ tpc = "done"
    /\ NothingToUpdate(call)
    /\ call[1].identifier = "1"
    /\ call[1].args.completed = Null
    /\ requests = <<GetRequest({})>>
    /\ resolution # <<>>
    /\ resolution[1].outcome.ok
    /\ tasks # <<>>
    /\ result = <<Returned(NoChangesMessage)>>

\* the data message of a tool, and the strings it returns when it succeeds
MessageType(tool) ==
    IF tool = "create_task" THEN "TASK_CREATED"
    ELSE IF tool = "update_task" THEN "TASK_UPDATED"
    ELSE IF tool = "delete_task" THEN "TASK_DELETED"
    ELSE "APPLY_FILTERS"

\* the request of the tool was answered with a 2xx and a readable body, and
\* the tool now ends
RequestSucceeded ==
    /\ tpc \in {"mutating", "listing"}
    /\ rpc = "returned"
    /\ settled[1].kind = "resolve"
    /\ settled[1].value.json # <<>>
    /\ tpc' = "done"

\* C38: a data message is published only in the step in which the tool,
\* its POST, PATCH or DELETE having succeeded, ends; it is the message of
\* that tool; there is at most one per invocation, and none when the
\* invocation ends otherwise; and the tool returns its confirmation whether
\* or not the publication succeeded.
C38_NotificationOrdering ==
    [][ /\ published' # published =>
              /\ RequestSucceeded
              /\ requests[Len(requests)].method =
                     (IF call[1].tool = "create_task" THEN "POST"
                      ELSE IF call[1].tool = "update_task" THEN "PATCH"
                      ELSE IF call[1].tool = "delete_task" THEN "DELETE" ELSE "GET")
              /\ published' = <<MessageType(call[1].tool)>>
              /\ room = "present"
        /\ Len(published') <= 1
        /\ (tpc' = "done" /\ ~RequestSucceeded) => published' = <<>>
        /\ (RequestSucceeded /\ call[1].tool # "get_tasks") =>
              /\ result'[1].kind = "return"
              /\ call[1].tool = "create_task" => result'[1].value = "Task created"
              /\ call[1].tool = "delete_task" => result'[1].value = "Deleted"
              /\ call[1].tool = "update_task" =>
                    result'[1].value \in {"Updated", "Marked complete", "Marked incomplete"}
      ]_vars

\* delete_task's DELETE succeeded and the publication failed, there being a
\* room: nothing was published and the tool said "Deleted"
C38_Witness ==
    /\ tpc = "done"
    /\ call[1].tool = "delete_task"
    /\ room = "present"
    /\ requests[Len(requests)].method = "DELETE"
    /\ published = <<>>
    /\ result = <<Returned("Deleted")>>

\* the positions, in a sequence of requests, of the listing fetches and of
\* the others
Fetches(reqs) == { i \in 1..Len(reqs) : reqs[i].method = "GET" }

Mutations(reqs) == { i \in 1..Len(reqs) : reqs[i].method # "GET" }

\* C39: an invocation sends at most 3 requests for each call of the API it
\* makes: at most 3 in all for create_task and get_tasks, at most 3 listing
\* fetches followed by at most 3 attempts of the mutation for update_task
\* and delete_task; an attempt is sent again only when the one before it has
\* failed; and a mutation is attempted only when the listing fetch has
\* succeeded and the resolver has returned an id, the one it is sent to.
C39_RequestBound ==
    [][ call' # <<>> =>
          LET reqs == requests'
              tool == call'[1].tool
          IN /\ tool \in {"create_task", "get_tasks"} => Len(reqs) <= 3
             /\ tool = "create_task" => Fetches(reqs) = {}
             /\ tool = "get_tasks" => Mutations(reqs) = {}
             /\ tool \in {"update_task", "delete_task"} =>
                   /\ Cardinality(Fetches(reqs)) <= 3
                   /\ Cardinality(Mutations(reqs)) <= 3
                   /\ Len(reqs) <= 6
                   /\ \A i \in Fetches(reqs), j \in Mutations(reqs) : i < j
                   /\ Mutations(reqs) # {} =>
                         /\ resolution' # <<>>
                         /\ resolution'[1].outcome.ok
                         /\ \A j \in Mutations(reqs) :
                               reqs[j].target = <<resolution'[1].outcome.id>>
             /\ \A i \in 2..Len(reqs) : reqs[i].method = reqs[i - 1].method => reqs[i] = reqs[i - 1]
             /\ (Len(reqs) > Len(requests) /\ requests # <<>>) =>
                   IF reqs[Len(reqs)].method = requests[Len(requests)].method
                   THEN /\ rpc = "sleeping"
                        /\ lastError # <<>>
                        /\ settled = <<>>
                   ELSE /\ rpc = "returned"
                        /\ settled[1].kind = "resolve"
                        /\ requests[Len(requests)].method = "GET"
      ]_vars

\* update_task has sent three listing fetches and three PATCH attempts
C39_Witness ==
    /\ call # <<>>
    /\ call[1].tool = "update_task"
    /\ Len(requests) = 6
    /\ Fetches(requests) = {1, 2, 3}
    /\ Mutations(requests) = {4, 5, 6}
    /\ requests[6].method = "PATCH"

(***************************************************************************)
(* Claims about the agent process                                          *)
(***************************************************************************)

\* the calls in which the greeting was spoken for the room: session.say was
\* reached
Spoken(roomName) ==
    { i \in 1..Len(greetings) :
        greetings[i].room = roomName /\ greetings[i].pc \in {"saying", "played", "failed"} }

\* C34: with playOnce true, whatever playGreeting calls are made for a room
\* the greeting is spoken at most once for it, and a call made for a room
\* for which hasGreetingBeenPlayed is true skips the playback.
C34_GreetingOnce ==
    [][ /\ GREETING_CONFIG.playOnce =>
              \A roomName \in RoomNames \ {""} : Cardinality(Spoken(roomName))' <= 1
        /\ \A roomName \in RoomNames :
              (/\ hasGreetingBeenPlayed(roomName)
               /\ Len(greetings') = Len(greetings) + 1
               /\ greetings'[Len(greetings')].room = roomName)
              => greetings'[Len(greetings')].pc = "skipped"
      ]_vars

\* C40: whatever SIGINT and SIGTERM are delivered, and whenever,
\* cleanupOnExit is started at most once, by the first of them, and the
\* process exits only when that cleanup has come to its end.
C40_ShutdownOnce ==
    [][ /\ Len(cleanup') <= 1
        /\ Len(cleanup') > Len(cleanup) =>
              /\ signals = <<>>
              /\ cleanup'[1].by = signals'[1]
        /\ signals' # <<>> => (isShuttingDown' /\ Len(cleanup') = 1)
        /\ (exited' /\ ~exited) => (cleanup # <<>> /\ cleanup[1].pc = "finished")
        /\ exited' => cleanup'[1].pc = "returned"
      ]_vars

\* SIGINT started the cleanup; SIGTERM and another SIGINT came before the
\* exit; the one cleanup deleted a dispatch, went to its end and the process
\* exited
C40_Witness ==
    /\ signals = <<"SIGINT", "SIGTERM", "SIGINT">>
    /\ Len(cleanup) = 1
    /\ cleanup[1] = [pc |-> "returned", by |-> "SIGINT", left |-> 0, deletedCount |-> 1]
    /\ exited

=============================================================================
